---- MODULE Spec2Model ----
(***************************************************************************)
(* Model of the upgrade planner backend of console-plugin-upgrade-planner: *)
(*   - LifecycleService (issue and upgrade detection, platform snapshot),  *)
(*   - UpgradePlannerService (four path strategies, maintenance windows).  *)
(* The strings the code inspects (versions, channel names) are decoded     *)
(* into their characters, so that the regular expression of cleanVersion   *)
(* and String.includes are computed, not assumed.                          *)
(***************************************************************************)
EXTENDS Integers, Sequences, FiniteSets, Bags, TLC

VARIABLES pc, platformStatus, paths, windows, inventory, cursor, operators,
          detectArgs, detected,
          durationSteps, totalDuration,
          repeatStatus, firstPaths, repeatWindows, secondPaths,
          now, lifecycleCache, lastCacheUpdate, fetching, fetchedAt, lookup,
          clusterApi, turn,
          routeParams, pageOperator, pageLoading, pageError, inFlight, requested,
          operatorOf, errorOf

\* the request being served: its position, what its reads have answered so far
\* (inventory) and what it has computed
requestVars == <<pc, platformStatus, paths, windows, inventory, cursor, operators>>
\* one call of detectUpgradeIssues: its arguments, with the answer of the read
\* it awaits, and what it has computed
detectVars == <<detectArgs, detected>>
\* the steps of a path under construction and their total duration
durationVars == <<durationSteps, totalDuration>>
\* a snapshot, what two calls of generateUpgradePaths on it returned and what
\* generateMaintenanceWindows returned on the paths of the first call
repeatVars == <<repeatStatus, firstPaths, repeatWindows, secondPaths>>
\* the lifecycle cache of the service: the clock, the entries, the timestamp
\* shared by all keys, the fetches in flight (one copy of a key for each), the
\* time each entry was fetched (history, not read by the code) and the last
\* lookup served
cacheVars == <<now, lifecycleCache, lastCacheUpdate, fetching, fetchedAt, lookup>>
\* what getPlatformStatus works on: the objects the cluster API holds now and
\* the locals of the getOperatorStatus call in progress
buildVars == <<clusterApi, turn>>
\* OperatorDetailPage: the route parameters, the state of the component
\* (operator, loading, error), the requests in flight, the number of loads
\* started, and which load wrote operator and error last (history, not read
\* by the code)
pageVars == <<routeParams, pageOperator, pageLoading, pageError, inFlight,
              requested, operatorOf, errorOf>>

\* the variables outside a request, outside a call of detectUpgradeIssues and
\* outside the construction of a path
otherVars ==
    <<detectVars, durationVars, repeatVars, cacheVars,
      buildVars, pageVars>>
\* the variables getPlatformStatus neither reads nor writes
outsideStatus ==
    <<detectVars, durationVars, repeatVars, pageVars>>
outsideDetect ==
    <<requestVars, durationVars, repeatVars, cacheVars,
      buildVars, pageVars>>
outsideDuration ==
    <<requestVars, detectVars, repeatVars, cacheVars,
      buildVars, pageVars>>
outsideRepeat ==
    <<requestVars, detectVars, durationVars, cacheVars,
      buildVars, pageVars>>
outsideCache ==
    <<requestVars, detectVars, durationVars, repeatVars,
      buildVars, pageVars>>
outsidePage ==
    <<requestVars, detectVars, durationVars, repeatVars,
      cacheVars, buildVars>>

vars == <<requestVars, otherVars>>

(***************************************************************************)
(* Bounds of the model.                                                    *)
(***************************************************************************)
\* the largest number of available upgrades, over all operators of one snapshot
MaxUpgrades == 2
\* the largest number of channels of one package
MaxChannels == 2
\* the largest number of available updates of the cluster in one call of
\* detectUpgradeIssues
MaxUpdates == 2
\* the largest number of steps of a path whose duration is totalled
MaxSteps == 4
\* the number of steps of the clock
MaxTicks == 6
\* the largest number of loads one page starts
MaxLoads == 3
\* the largest number of fetches of the lifecycle lookup in flight at once
MaxFetches == 2

(***************************************************************************)
(* JavaScript values.                                                      *)
(***************************************************************************)
Null == [null |-> TRUE]
Throw == [threw |-> "TypeError: Invalid Version"]
\* a method that returns a list either throws or returns it
Return(value) == [returned |-> value]
\* an optional number is <<>> (undefined) or <<n>>
Undefined == <<>>
Some(n) == <<n>>
Truthy(optnum) == optnum # Undefined /\ optnum[1] # 0
\* an optional string field that is not set
NoValue == "undefined"

\* With(e, LAMBDA x : body) is LET x == e IN body, with e evaluated once
With(x, F(_)) == F(x)

Min(S) == CHOOSE m \in S : \A n \in S : m <= n

(***************************************************************************)
(* Version strings: the regular expression /v?(\d+\.\d+\.\d+)/ and the     *)
(* strict parser of the semver package.                                    *)
(***************************************************************************)
\* the characters of the strings of the model (TLC cannot index a string)
Chars(str) ==
    CASE str = "op.v1.2.0" -> <<"o", "p", ".", "v", "1", ".", "2", ".", "0">>
      [] str = "unknown" -> <<"u", "n", "k", "n", "o", "w", "n">>
      [] str = "op.v1.2.3" -> <<"o", "p", ".", "v", "1", ".", "2", ".", "3">>
      [] str = "1.2.0" -> <<"1", ".", "2", ".", "0">>
      [] str = "1.2.3" -> <<"1", ".", "2", ".", "3">>
      [] str = "1.4.0" -> <<"1", ".", "4", ".", "0">>
      [] str = "1.2.5" -> <<"1", ".", "2", ".", "5">>
      [] str = "1.3.0" -> <<"1", ".", "3", ".", "0">>
      [] str = "op.v1.4.0" -> <<"o", "p", ".", "v", "1", ".", "4", ".", "0">>
      [] str = "2.0.0" -> <<"2", ".", "0", ".", "0">>
      [] str = "op.v1.2.5" -> <<"o", "p", ".", "v", "1", ".", "2", ".", "5">>
      [] str = "op.v2.0.0" -> <<"o", "p", ".", "v", "2", ".", "0", ".", "0">>
      [] str = "latest" -> <<"l", "a", "t", "e", "s", "t">>
      [] str = "stable" -> <<"s", "t", "a", "b", "l", "e">>
      [] str = "fast" -> <<"f", "a", "s", "t">>
      [] str = "stable-1.3" -> <<"s", "t", "a", "b", "l", "e", "-", "1", ".", "3">>
      [] str = "candidate" -> <<"c", "a", "n", "d", "i", "d", "a", "t", "e">>
      [] str = "alpha" -> <<"a", "l", "p", "h", "a">>
      [] str = "nightly" -> <<"n", "i", "g", "h", "t", "l", "y">>
      [] str = "recommended" -> <<"r", "e", "c", "o", "m", "m", "e", "n", "d", "e", "d">>
      [] str = "4.16.0" -> <<"4", ".", "1", "6", ".", "0">>
      [] str = "stable-4.16" -> <<"s", "t", "a", "b", "l", "e", "-", "4", ".", "1", "6">>
      [] str = "4.16.1" -> <<"4", ".", "1", "6", ".", "1">>
      [] str = "4.16.5" -> <<"4", ".", "1", "6", ".", "5">>
      [] str = "4.17.0" -> <<"4", ".", "1", "7", ".", "0">>
      [] str = "4.15.0" -> <<"4", ".", "1", "5", ".", "0">>
      [] str = "4.16.3" -> <<"4", ".", "1", "6", ".", "3">>
      [] str = "4.16" -> <<"4", ".", "1", "6">>
      [] str = "15 minutes" -> <<"1", "5", " ", "m", "i", "n", "u", "t", "e", "s">>
      [] str = "10-20 minutes" -> <<"1", "0", "-", "2", "0", " ", "m", "i", "n", "u", "t", "e", "s">>
      [] str = "45-90 minutes" -> <<"4", "5", "-", "9", "0", " ", "m", "i", "n", "u", "t", "e", "s">>
      [] str = " minutes" -> <<" ", "m", "i", "n", "u", "t", "e", "s">>
      [] str = "minute" -> <<"m", "i", "n", "u", "t", "e">>
      [] str = "unknown-channel" -> <<"u", "n", "k", "n", "o", "w", "n", "-", "c", "h", "a", "n", "n", "e", "l">>
      [] str = "gitops" -> <<"g", "i", "t", "o", "p", "s">>
      [] str = "quay-operator" -> <<"q", "u", "a", "y", "-", "o", "p", "e", "r", "a", "t", "o", "r">>
      [] str = "advanced-cluster-management" -> <<"a", "d", "v", "a", "n", "c", "e", "d", "-", "c", "l", "u", "s", "t", "e", "r", "-", "m", "a", "n", "a", "g", "e", "m", "e", "n", "t">>
      [] str = "multicluster-engine" -> <<"m", "u", "l", "t", "i", "c", "l", "u", "s", "t", "e", "r", "-", "e", "n", "g", "i", "n", "e">>
      [] str = "odf-operator" -> <<"o", "d", "f", "-", "o", "p", "e", "r", "a", "t", "o", "r">>
      [] str = "acs-operator" -> <<"a", "c", "s", "-", "o", "p", "e", "r", "a", "t", "o", "r">>
      [] str = "compliance-operator" -> <<"c", "o", "m", "p", "l", "i", "a", "n", "c", "e", "-", "o", "p", "e", "r", "a", "t", "o", "r">>
      [] str = "cost-management-metrics-operator" -> <<"c", "o", "s", "t", "-", "m", "a", "n", "a", "g", "e", "m", "e", "n", "t", "-", "m", "e", "t", "r", "i", "c", "s", "-", "o", "p", "e", "r", "a", "t", "o", "r">>

Digits == <<"0", "1", "2", "3", "4", "5", "6", "7", "8", "9">>
IsDigit(c) == c \in {Digits[d] : d \in 1..10}
DigitValue(c) == (CHOOSE d \in 1..10 : Digits[d] = c) - 1

\* index of the last character of the longest digit run that starts at i
\* (i - 1 or less when s[i] is no digit)
RECURSIVE DigitRunEnd(_, _)
DigitRunEnd(s, i) ==
    IF i > Len(s) \/ ~IsDigit(s[i]) THEN i - 1 ELSE DigitRunEnd(s, i + 1)

\* index of the last character of a match of \d+\.\d+\.\d+ that starts at i,
\* 0 when there is none (\d+ is greedy and a digit is never a dot, so the
\* longest runs are the only match)
TripleEnd(s, i) ==
    With(DigitRunEnd(s, i), LAMBDA a :
        IF a < i \/ a + 1 > Len(s) \/ s[a + 1] # "." THEN 0
        ELSE With(DigitRunEnd(s, a + 2), LAMBDA b :
            IF b < a + 2 \/ b + 1 > Len(s) \/ s[b + 1] # "." THEN 0
            ELSE With(DigitRunEnd(s, b + 2), LAMBDA c :
                IF c < b + 2 THEN 0 ELSE c)))

\* group 1 of the leftmost match of the expression in s at or after i, else s
RECURSIVE FirstTripleFrom(_, _)
FirstTripleFrom(s, i) ==
    IF i > Len(s) THEN s
    ELSE IF TripleEnd(s, i) > 0 THEN SubSeq(s, i, TripleEnd(s, i))
    ELSE FirstTripleFrom(s, i + 1)

FirstTriple(s) == FirstTripleFrom(s, 1)

\* version.match(/v?(\d+\.\d+\.\d+)/): match[1], else the string itself;
\* the result is given by its characters
cleanVersion(version) == FirstTriple(Chars(version))

RECURSIVE ParseNat(_, _, _)
ParseNat(s, i, j) ==
    IF j < i THEN 0 ELSE 10 * ParseNat(s, i, j - 1) + DigitValue(s[j])

\* a numeric identifier of semver: 0, or digits that do not start with 0
NumericIdentifier(s, i, j) == i = j \/ s[i] # "0"

\* <<major, minor, patch>> of s = N.N.N, whose first two numbers end at a, b
ParseTriple(s, a, b) ==
    IF NumericIdentifier(s, 1, a) /\ NumericIdentifier(s, a + 2, b)
       /\ NumericIdentifier(s, b + 2, Len(s))
    THEN <<ParseNat(s, 1, a), ParseNat(s, a + 2, b), ParseNat(s, b + 2, Len(s))>>
    ELSE <<>>

\* semver.parse: <<major, minor, patch>> of a string that is exactly
\* v?N.N.N with no leading zeros, <<>> (null) for any other string. No
\* string of the model carries a prerelease or build suffix past
\* cleanVersion.
semverParse(v) ==
    With(IF v # <<>> /\ v[1] = "v" THEN Tail(v) ELSE v, LAMBDA s :
        IF s = <<>> \/ TripleEnd(s, 1) # Len(s) THEN <<>>
        ELSE With(DigitRunEnd(s, 1), LAMBDA a :
                 ParseTriple(s, a, DigitRunEnd(s, a + 2))))

semverValid(v) == semverParse(v) # <<>>

\* new SemVer(a) or new SemVer(b) throws TypeError('Invalid Version')
semverThrows(a, b) == ~semverValid(a) \/ ~semverValid(b)

\* SemVer.compare of two parsed versions: -1, 0, 1
CompareMain(x, y) ==
    IF x[1] # y[1] THEN (IF x[1] < y[1] THEN -1 ELSE 1)
    ELSE IF x[2] # y[2] THEN (IF x[2] < y[2] THEN -1 ELSE 1)
    ELSE IF x[3] # y[3] THEN (IF x[3] < y[3] THEN -1 ELSE 1)
    ELSE 0

semverGt(a, b) == CompareMain(semverParse(a), semverParse(b)) = 1
semverLt(a, b) == CompareMain(semverParse(a), semverParse(b)) = -1

\* the first component in which two parsed versions differ
DiffMain(x, y) ==
    IF x[1] # y[1] THEN "major"
    ELSE IF x[2] # y[2] THEN "minor"
    ELSE IF x[3] # y[3] THEN "patch"
    ELSE "null"

\* semver.diff of two valid versions
semverDiff(a, b) == DiffMain(semverParse(a), semverParse(b))

IncludesChars(s, sub) ==
    \E i \in 1..(Len(s) - Len(sub) + 1) : SubSeq(s, i, i + Len(sub) - 1) = sub

\* String.prototype.includes
Includes(str, substr) == IncludesChars(Chars(str), Chars(substr))

(***************************************************************************)
(* Issue detection (LifecycleService.detectUpgradeIssues).  An issue id is *)
(* the operator name followed by a fixed suffix.                           *)
(***************************************************************************)
Issue(name, suffix, severity, type, blocks) ==
    [id |-> name \o suffix, operatorName |-> name, severity |-> severity,
     type |-> type, affectsClusterUpgrade |-> blocks]

StaleChannelIssue(name) ==
    Issue(name, "-stale-channel", "warning", "stale-channel", FALSE)
MaintenanceIssue(name) ==
    Issue(name, "-maintenance", "warning", "lifecycle-expiring", FALSE)
EolIssue(name) ==
    Issue(name, "-eol", "critical", "lifecycle-expiring", TRUE)
VersionCeilingIssue(name) ==
    Issue(name, "-version-ceiling", "critical", "version-ceiling", TRUE)

\* issues.some((i) => i.severity === severity)
HasSeverity(issues, severity) ==
    \E i \in 1..Len(issues) : issues[i].severity = severity

\* issues.filter((i) => i.severity === severity).length
CountSeverity(issues, severity) ==
    Cardinality({i \in 1..Len(issues) : issues[i].severity = severity})

RECURSIVE CountEveryIssue(_)
\* a count of the issues of every severity
CountEveryIssue(ops) ==
    IF ops = <<>> THEN 0 ELSE Len(Head(ops).issues) + CountEveryIssue(Tail(ops))

RECURSIVE CountCritical(_)
\* operators.reduce((count, op) => count + (critical issues of op), 0)
CountCritical(ops) ==
    IF ops = <<>> THEN 0
    ELSE CountSeverity(Head(ops).issues, "critical") + CountCritical(Tail(ops))

RECURSIVE CountIssues(_)
\* operators.reduce((count, op) => count + op.issues.length, 0)
CountIssues(ops) ==
    IF ops = <<>> THEN 0 ELSE Len(Head(ops).issues) + CountIssues(Tail(ops))

OverallHealth(criticalIssues, totalIssues) ==
    IF criticalIssues > 0 THEN "critical"
    ELSE IF totalIssues > 0 THEN "warning"
    ELSE "healthy"

\* the value getPlatformStatus returns: the aggregate counters are computed
\* from the operators
PlatformStatusOf(cluster, ops, supportExpiresIn) ==
    [cluster |-> cluster,
     operators |-> ops,
     overallHealth |-> OverallHealth(CountCritical(ops), CountIssues(ops)),
     totalIssues |-> CountIssues(ops),
     criticalIssues |-> CountCritical(ops),
     supportExpiresIn |-> supportExpiresIn]

(***************************************************************************)
(* LifecycleService: the status of one operator.  An available upgrade is  *)
(* kept as the fields the planner reads (targetVersion, channel).          *)
(***************************************************************************)
PlatformAlignedOperators ==
    <<"advanced-cluster-management", "multicluster-engine", "odf-operator",
      "quay-operator", "acs-operator">>
RollingReleaseOperators ==
    <<"compliance-operator", "cost-management-metrics-operator">>

\* patterns.some((op) => operatorName.includes(op))
SomeIncluded(operatorName, patterns) ==
    \E i \in 1..Len(patterns) : Includes(operatorName, patterns[i])

\* defaults that report a highest supported cluster version
DefaultInfoWithCeiling(operatorName, version) ==
    [operatorName |-> operatorName,
     version |-> version,
     lifecycleModel |-> "platform-agnostic",
     supportPhase |-> "full-support",
     maintenanceSupportEndsAt |-> Undefined,
     maxOCPVersion |-> "4.16.3"]

getDefaultLifecycleInfo(operatorName, version) ==
    [operatorName |-> operatorName,
     version |-> version,
     lifecycleModel |->
         IF SomeIncluded(operatorName, PlatformAlignedOperators)
         THEN "platform-aligned"
         ELSE IF SomeIncluded(operatorName, RollingReleaseOperators)
         THEN "rolling-release"
         ELSE "platform-agnostic",
     supportPhase |-> "full-support",
     maintenanceSupportEndsAt |-> Undefined,
     maxOCPVersion |-> NoValue]

\* the lookup is a placeholder in this repository: it answers with the defaults
fetchLifecycleInfoFromAPI(operatorName, version) ==
    getDefaultLifecycleInfo(operatorName, version)

\* a test that lets a channel head pass when it is no version
IsNewerOrUnparsed(currentVersionClean, latestVersion) ==
    \/ ~semverValid(latestVersion)
    \/ /\ semverValid(currentVersionClean)
       /\ semverGt(latestVersion, currentVersionClean)

\* a test that lets every channel head that is a version pass when the
\* installed version is none
IsNewerOrUnknown(currentVersionClean, latestVersion) ==
    /\ semverValid(latestVersion)
    /\ \/ ~semverValid(currentVersionClean)
       \/ semverGt(latestVersion, currentVersionClean)

\* semver.valid of both cleaned versions, then semver.gt(latest, current)
IsNewer(currentVersionClean, latestVersion) ==
    /\ semverValid(currentVersionClean)
    /\ semverValid(latestVersion)
    /\ semverGt(latestVersion, currentVersionClean)

\* upgrades.push({targetVersion: channel.currentCSV, channel: channel.name, ...})
UpgradeTo(channel) ==
    [targetVersion |-> channel.currentCSV, channel |-> channel.name]

RECURSIVE detectAvailableUpgrades(_, _)
\* what the call returns: an upgrade for each channel whose head is newer, in
\* the order of the channels
detectAvailableUpgrades(installation, availableChannels) ==
    IF availableChannels = <<>> THEN <<>>
    ELSE (IF IsNewer(cleanVersion(installation.currentVersion),
                     cleanVersion(Head(availableChannels).currentCSV))
          THEN <<UpgradeTo(Head(availableChannels))>>
          ELSE <<>>)
         \o detectAvailableUpgrades(installation, Tail(availableChannels))

\* typeof update === 'string' ? update : update.version || ''
extractVersionFromUpdate(update) == update

\* a ceiling rule that compares with the last available update
ExceedsCeilingOfLatest(maxOCPVersion, availableUpdates) ==
    /\ maxOCPVersion # NoValue
    /\ Len(availableUpdates) > 0
    /\ semverValid(Chars(availableUpdates[Len(availableUpdates)]))
    /\ semverValid(Chars(maxOCPVersion))
    /\ semverGt(Chars(availableUpdates[Len(availableUpdates)]),
                Chars(maxOCPVersion))

\* the version-ceiling rule: semver.valid and semver.gt on the raw strings
ExceedsCeiling(maxOCPVersion, availableUpdates) ==
    /\ maxOCPVersion # NoValue
    /\ Len(availableUpdates) > 0
    /\ semverValid(Chars(extractVersionFromUpdate(availableUpdates[1])))
    /\ semverValid(Chars(maxOCPVersion))
    /\ semverGt(Chars(extractVersionFromUpdate(availableUpdates[1])),
                Chars(maxOCPVersion))

\* the synchronous rules without the one of the maintenance-support phase
LifecycleIssuesWithoutMaintenance(installation, lifecycleInfo, currentChannel) ==
    (IF currentChannel.deprecated
     THEN <<StaleChannelIssue(installation.name)>> ELSE <<>>)
    \o (IF lifecycleInfo.supportPhase = "end-of-life"
        THEN <<EolIssue(installation.name)>> ELSE <<>>)

\* the three rules detectUpgradeIssues runs before it awaits the cluster
\* version, in the order of the code
LifecycleIssues(installation, lifecycleInfo, currentChannel) ==
    (IF currentChannel.deprecated
     THEN <<StaleChannelIssue(installation.name)>> ELSE <<>>)
    \o (IF lifecycleInfo.supportPhase = "maintenance-support"
        THEN <<MaintenanceIssue(installation.name)>> ELSE <<>>)
    \o (IF lifecycleInfo.supportPhase = "end-of-life"
        THEN <<EolIssue(installation.name)>> ELSE <<>>)

\* the rule that follows the read: availableUpdates is
\* clusterVersion.status?.availableUpdates || [] of the answer
CeilingIssues(installation, lifecycleInfo, availableUpdates) ==
    IF ExceedsCeiling(lifecycleInfo.maxOCPVersion, availableUpdates)
    THEN <<VersionCeilingIssue(installation.name)>> ELSE <<>>

\* what detectUpgradeIssues returns when the cluster version read inside it
\* answers; when the read rejects, the method rejects
detectUpgradeIssues(installation, lifecycleInfo, currentChannel, availableUpdates) ==
    LifecycleIssues(installation, lifecycleInfo, currentChannel)
    \o CeilingIssues(installation, lifecycleInfo, availableUpdates)

calculateHealthStatus(issues) ==
    IF HasSeverity(issues, "critical") THEN "critical"
    ELSE IF HasSeverity(issues, "warning") THEN "warning"
    ELSE "healthy"

\* availableChannels.find((c) => c.name === name) || { name, ..., deprecated: false }
ChannelAt(availableChannels, hits, installation) ==
    IF hits = {}
    THEN [name |-> installation.currentChannel,
          currentCSV |-> installation.currentVersion, deprecated |-> FALSE]
    ELSE availableChannels[Min(hits)]

FindCurrentChannel(installation, availableChannels) ==
    ChannelAt(availableChannels,
              {i \in 1..Len(availableChannels) :
                   availableChannels[i].name = installation.currentChannel},
              installation)

\* OLMClient.mapSubscriptionToInstallation: the fields the services read
mapSubscriptionToInstallation(sub) ==
    [name |-> sub.name, namespace |-> sub.namespace,
     currentVersion |-> IF sub.currentCSV = NoValue THEN "unknown"
                        ELSE sub.currentCSV,
     currentChannel |-> IF sub.channel = NoValue THEN "unknown"
                        ELSE sub.channel]

\* the object getOperatorStatus returns from its locals
StatusOf(installation, lifecycleInfo, availableChannels, availableUpgrades, availableUpdates) ==
    [installation |-> installation,
     lifecycleInfo |-> lifecycleInfo,
     availableUpgrades |-> availableUpgrades,
     currentChannel |-> FindCurrentChannel(installation, availableChannels),
     issues |-> detectUpgradeIssues(
                    installation, lifecycleInfo,
                    FindCurrentChannel(installation, availableChannels),
                    availableUpdates),
     healthStatus |-> calculateHealthStatus(detectUpgradeIssues(
                    installation, lifecycleInfo,
                    FindCurrentChannel(installation, availableChannels),
                    availableUpdates))]

\* OLMClient.getOperatorChannels on the answer of the PackageManifest read:
\* the mapped channels, [] on 404, an exception on any other failure
ChannelsOf(manifest) ==
    IF manifest.status = "error" THEN Throw
    ELSE IF manifest.status = "not-found" THEN Return(<<>>)
    ELSE Return(manifest.channels)

\* getOperatorStatus on what its awaits answered.  sub is the answer of the
\* subscription read by name and namespace (lookup is "not-found" on 404, which
\* gives null, and "error" on any other failure, which throws); availableChannels
\* is what getOperatorChannels returned or Throw; clusterVersion is the answer of
\* the read inside detectUpgradeIssues, or Throw when it rejects.  An exception
\* anywhere in the method is caught: return null
getOperatorStatus(sub, lifecycleInfo, availableChannels, availableUpgrades, clusterVersion) ==
    IF sub.lookup # "ok" THEN Null
    ELSE IF availableChannels = Throw THEN Null
    ELSE IF clusterVersion = Throw THEN Null
    ELSE StatusOf(mapSubscriptionToInstallation(sub), lifecycleInfo,
                  availableChannels.returned, availableUpgrades,
                  clusterVersion.returned.availableUpdates)

\* data.status?.desired?.version || 'unknown', data.spec?.channel || 'unknown',
\* data.status?.availableUpdates?.map((u) => u.version || u) || []
mapToClusterVersion(data) ==
    [currentVersion |-> IF data.version = NoValue THEN "unknown" ELSE data.version,
     channel |-> IF data.channel = NoValue THEN "unknown" ELSE data.channel,
     availableUpdates |-> data.availableUpdates,
     maintenanceSupportEndsAt |-> Undefined]

\* the dates are counted in whole days from now
ExpiryDates(cluster, ops) ==
    {cluster.maintenanceSupportEndsAt[1] : x \in
         {y \in {1} : cluster.maintenanceSupportEndsAt # Undefined}}
    \cup {ops[i].lifecycleInfo.maintenanceSupportEndsAt[1] : i \in
              {j \in 1..Len(ops) :
                   ops[j].lifecycleInfo.maintenanceSupportEndsAt # Undefined}}

EarliestExpiry(dates) == IF dates = {} THEN Undefined ELSE Some(Min(dates))

calculateSupportExpiry(cluster, ops) == EarliestExpiry(ExpiryDates(cluster, ops))

(***************************************************************************)
(* Upgrade steps and paths (UpgradePlannerService).                        *)
(***************************************************************************)
VerificationStep ==
    [type |-> "verification", target |-> "cluster", fromVersion |-> NoValue,
     toVersion |-> NoValue, channel |-> NoValue,
     estimatedDuration |-> "15 minutes"]

OperatorStep(operator, upgrade) ==
    [type |-> "operator", target |-> operator.installation.name,
     fromVersion |-> operator.installation.currentVersion,
     toVersion |-> upgrade.targetVersion, channel |-> upgrade.channel,
     estimatedDuration |-> "10-20 minutes"]

ClusterStep(cluster, version) ==
    [type |-> "cluster", target |-> "OpenShift Cluster",
     fromVersion |-> cluster.currentVersion, toVersion |-> version,
     channel |-> cluster.channel, estimatedDuration |-> "45-90 minutes"]

\* const steps = []; let order = 1
NoSteps == [steps |-> <<>>, order |-> 1]

\* a push that numbers the step and leaves the counter where it was
PushSameOrder(st, step) ==
    [steps |-> Append(st.steps,
                      [order |-> st.order, type |-> step.type,
                       target |-> step.target,
                       fromVersion |-> step.fromVersion,
                       toVersion |-> step.toVersion, channel |-> step.channel,
                       estimatedDuration |-> step.estimatedDuration]),
     order |-> st.order]

\* steps.push({ order: order++, ...step })
Push(st, step) ==
    [steps |-> Append(st.steps,
                      [order |-> st.order, type |-> step.type,
                       target |-> step.target,
                       fromVersion |-> step.fromVersion,
                       toVersion |-> step.toVersion, channel |-> step.channel,
                       estimatedDuration |-> step.estimatedDuration]),
     order |-> st.order + 1]

Path(id, confidence, steps) ==
    [id |-> id, confidence |-> confidence, steps |-> steps]

IsCritical(op) == HasSeverity(op.issues, "critical")
\* a filter that keeps every operator, with or without a warning
KeepsEveryOperator(op) == Len(op.issues) >= 0
IsWarning(op) == HasSeverity(op.issues, "warning")

\* if (cluster.availableUpdates.length > 0): the cluster step to the first
\* available update
PushNextUpdate(st, cluster) ==
    IF Len(cluster.availableUpdates) > 0
    THEN Push(st, ClusterStep(cluster, cluster.availableUpdates[1]))
    ELSE st

\* a cluster step to the first available update where the last is meant
PushFirstUpdate(st, cluster) ==
    IF Len(cluster.availableUpdates) > 0
    THEN Push(st, ClusterStep(cluster, cluster.availableUpdates[1]))
    ELSE st

\* if (cluster.availableUpdates.length > 0): the cluster step to the last
\* available update
PushLatestUpdate(st, cluster) ==
    IF Len(cluster.availableUpdates) > 0
    THEN Push(st, ClusterStep(cluster,
                  cluster.availableUpdates[Len(cluster.availableUpdates)]))
    ELSE st

RECURSIVE CriticalLoopLast(_, _)
\* a loop that takes the last listed upgrade of each operator
CriticalLoopLast(ops, st) ==
    IF ops = <<>> THEN st
    ELSE CriticalLoopLast(Tail(ops),
             IF Len(Head(ops).availableUpgrades) > 0
             THEN Push(st, OperatorStep(Head(ops),
                      Head(ops).availableUpgrades[
                          Len(Head(ops).availableUpgrades)]))
             ELSE st)

RECURSIVE CriticalLoop(_, _)
\* for (const operator of criticalOperators): the first available upgrade
CriticalLoop(ops, st) ==
    IF ops = <<>> THEN st
    ELSE CriticalLoop(Tail(ops),
             IF Len(Head(ops).availableUpgrades) > 0
             THEN Push(st, OperatorStep(Head(ops),
                                        Head(ops).availableUpgrades[1]))
             ELSE st)

CriticalPathOf(criticalOperators, cluster) ==
    IF Len(criticalOperators) = 0 THEN Null
    ELSE Path("critical-issues-path", "high",
              PushNextUpdate(CriticalLoop(criticalOperators,
                                          Push(NoSteps, VerificationStep)),
                             cluster).steps)

generateCriticalIssuePath(ps) ==
    CriticalPathOf(SelectSeq(ps.operators, IsCritical), ps.cluster)

\* one call of the reducer of findConservativeUpgrade on cleaned versions:
\* diff and lt throw on a version semver cannot parse
CloserOf(currentVersion, closest, current, closestVersion, currentTargetVersion) ==
    IF semverThrows(currentVersion, currentTargetVersion) THEN Throw
    ELSE IF semverDiff(currentVersion, currentTargetVersion) = "patch"
         THEN current
    ELSE IF semverDiff(currentVersion, currentTargetVersion) = "minor"
         THEN IF semverThrows(currentTargetVersion, closestVersion) THEN Throw
              ELSE IF semverLt(currentTargetVersion, closestVersion)
                   THEN current ELSE closest
    ELSE closest

RECURSIVE ConservativeReduce(_, _, _)
\* availableUpgrades.reduce((closest, current) => ...) from the second
\* element on
ConservativeReduce(currentVersion, rest, closest) ==
    IF rest = <<>> \/ closest = Throw THEN closest
    ELSE ConservativeReduce(currentVersion, Tail(rest),
             CloserOf(currentVersion, closest, Head(rest),
                      cleanVersion(closest.targetVersion),
                      cleanVersion(Head(rest).targetVersion)))

ConservativeOf(operator, currentVersion) ==
    IF semverParse(currentVersion) = <<>>
    THEN operator.availableUpgrades[1]
    ELSE ConservativeReduce(currentVersion, Tail(operator.availableUpgrades),
                            operator.availableUpgrades[1])

findConservativeUpgrade(operator) ==
    IF Len(operator.availableUpgrades) = 0 THEN Null
    ELSE ConservativeOf(operator,
                        cleanVersion(operator.installation.currentVersion))

RECURSIVE ConservativeLoop(_, _)
ConservativeLoop(ops, st) ==
    IF ops = <<>> THEN st
    ELSE With(findConservativeUpgrade(Head(ops)), LAMBDA conservativeUpgrade :
             IF conservativeUpgrade = Throw THEN Throw
             ELSE ConservativeLoop(Tail(ops),
                      IF conservativeUpgrade # Null
                      THEN Push(st, OperatorStep(Head(ops), conservativeUpgrade))
                      ELSE st))

generateConservativePath(ps) ==
    With(ConservativeLoop(SelectSeq(ps.operators, IsWarning),
                          Push(NoSteps, VerificationStep)), LAMBDA st :
        IF st = Throw THEN Throw
        ELSE IF Len(st.steps) = 1 THEN Null
        ELSE Path("conservative-path", "high", st.steps))

\* a reducer that keeps the entry it visits, whatever the versions
LastListedOf(latest, current, latestVersion, currentVersion) ==
    IF semverThrows(currentVersion, latestVersion) THEN Throw ELSE current

\* semver.gt(current, latest) ? current : latest, on cleaned versions
LaterOf(latest, current, latestVersion, currentVersion) ==
    IF semverThrows(currentVersion, latestVersion) THEN Throw
    ELSE IF semverGt(currentVersion, latestVersion) THEN current ELSE latest

RECURSIVE LatestReduce(_, _)
\* availableUpgrades.reduce((latest, current) => ...) from the second
\* element on
LatestReduce(rest, latest) ==
    IF rest = <<>> \/ latest = Throw THEN latest
    ELSE LatestReduce(Tail(rest),
             LaterOf(latest, Head(rest), cleanVersion(latest.targetVersion),
                     cleanVersion(Head(rest).targetVersion)))

findLatestUpgrade(operator) ==
    LatestReduce(Tail(operator.availableUpgrades), operator.availableUpgrades[1])

RECURSIVE AggressiveLoopAll(_, _)
\* a loop that pushes a step for every operator, with or without an upgrade
AggressiveLoopAll(ops, st) ==
    IF ops = <<>> THEN st
    ELSE IF Len(Head(ops).availableUpgrades) > 0
    THEN With(findLatestUpgrade(Head(ops)), LAMBDA latestUpgrade :
             IF latestUpgrade = Throw THEN Throw
             ELSE AggressiveLoopAll(Tail(ops),
                      Push(st, OperatorStep(Head(ops), latestUpgrade))))
    ELSE AggressiveLoopAll(Tail(ops),
             Push(st, OperatorStep(Head(ops),
                 [targetVersion |-> NoValue, channel |-> NoValue])))

RECURSIVE AggressiveLoop(_, _)
AggressiveLoop(ops, st) ==
    IF ops = <<>> THEN st
    ELSE IF Len(Head(ops).availableUpgrades) > 0
    THEN With(findLatestUpgrade(Head(ops)), LAMBDA latestUpgrade :
             IF latestUpgrade = Throw THEN Throw
             ELSE AggressiveLoop(Tail(ops),
                      Push(st, OperatorStep(Head(ops), latestUpgrade))))
    ELSE AggressiveLoop(Tail(ops), st)

\* an aggressive path that is returned whatever its length
AggressivePathAlways(st) == Path("aggressive-path", "medium", st.steps)

AggressivePathOf(st) ==
    IF Len(st.steps) = 1 THEN Null
    ELSE Path("aggressive-path", "medium", st.steps)

generateAggressivePath(ps) ==
    With(AggressiveLoop(ps.operators, Push(NoSteps, VerificationStep)),
         LAMBDA looped :
             IF looped = Throw THEN Throw
             ELSE AggressivePathOf(PushLatestUpdate(looped, ps.cluster)))

IsStableChannel(u) ==
    Includes(u.channel, "stable") \/ Includes(u.channel, "recommended")

\* a choice of the middle of the list whatever the names of the channels
BalancedOfMiddle(availableUpgrades, stableUpgrades) ==
    availableUpgrades[(Len(availableUpgrades) \div 2) + 1]

BalancedOf(availableUpgrades, stableUpgrades) ==
    IF Len(stableUpgrades) > 0
    THEN stableUpgrades[Len(stableUpgrades)]
    ELSE availableUpgrades[(Len(availableUpgrades) \div 2) + 1]

findBalancedUpgrade(operator) ==
    IF Len(operator.availableUpgrades) = 0 THEN Null
    ELSE BalancedOf(operator.availableUpgrades,
                    SelectSeq(operator.availableUpgrades, IsStableChannel))

OutdatedBy(currentVersion, latestVersion) ==
    IF ~semverValid(currentVersion) \/ ~semverValid(latestVersion) THEN FALSE
    ELSE semverDiff(currentVersion, latestVersion) \in {"minor", "major"}

isSignificantlyOutdated(operator) ==
    IF Len(operator.availableUpgrades) = 0 THEN FALSE
    ELSE OutdatedBy(cleanVersion(operator.installation.currentVersion),
                    cleanVersion(operator.availableUpgrades[
                        Len(operator.availableUpgrades)].targetVersion))

\* shouldUpgrade && availableUpgrades.length > 0 && targetUpgrade
BalancedChoice(operator) ==
    IF (Len(operator.issues) > 0 \/ isSignificantlyOutdated(operator))
       /\ Len(operator.availableUpgrades) > 0
    THEN findBalancedUpgrade(operator)
    ELSE Null

RECURSIVE BalancedLoop(_, _)
BalancedLoop(ops, st) ==
    IF ops = <<>> THEN st
    ELSE With(BalancedChoice(Head(ops)), LAMBDA targetUpgrade :
             BalancedLoop(Tail(ops),
                 IF targetUpgrade # Null
                 THEN Push(st, OperatorStep(Head(ops), targetUpgrade))
                 ELSE st))

\* a balanced path that is returned whatever its length
BalancedPathAlways(st) == Path("balanced-path", "high", st.steps)

BalancedPathOf(st) ==
    IF Len(st.steps) = 1 THEN Null
    ELSE Path("balanced-path", "high", st.steps)

generateBalancedPath(ps) ==
    BalancedPathOf(PushNextUpdate(
        BalancedLoop(ps.operators, Push(NoSteps, VerificationStep)),
        ps.cluster))

\* paths.push(path) when the strategy returned one
PushPath(acc, path) == IF path = Null THEN acc ELSE Append(acc, path)

CollectPaths(criticalPath, conservativePath, aggressivePath, balancedPath) ==
    IF conservativePath = Throw \/ aggressivePath = Throw THEN Throw
    ELSE Return(PushPath(PushPath(PushPath(PushPath(<<>>, criticalPath),
                                           conservativePath),
                                  aggressivePath),
                         balancedPath))

\* the four strategies in order; an exception of one of them leaves the method
generateUpgradePaths(ps) ==
    CollectPaths(generateCriticalIssuePath(ps), generateConservativePath(ps),
                 generateAggressivePath(ps), generateBalancedPath(ps))

\* new Date(now.setMonth(now.getMonth() + 18)): 18 months after the clock
calculateSupportedUntil(clock) == [months |-> 18, after |-> clock]

\* the path a strategy returns at this time of the clock: supportedUntil
Dated(path, clock) ==
    [id |-> path.id, confidence |-> path.confidence, steps |-> path.steps,
     supportedUntil |-> calculateSupportedUntil(clock)]

\* what generateUpgradePaths returns when it is called at this time
generateUpgradePathsAt(ps, clock) ==
    With(generateUpgradePaths(ps), LAMBDA result :
        IF result = Throw THEN Throw
        ELSE Return([i \in 1..Len(result.returned) |->
                         Dated(result.returned[i], clock)]))

\* a call that reverses the available upgrades of each operator in place
UpgradesReversedInPlace(ps) ==
    [ps EXCEPT !.operators =
        [n \in 1..Len(ps.operators) |->
            [ps.operators[n] EXCEPT !.availableUpgrades =
                [i \in 1..Len(@) |-> @[Len(@) + 1 - i]]]]]

\* the snapshot after a call of generateUpgradePaths: the strategies filter,
\* reduce and read it and assign none of its fields
SnapshotAfter(ps) == ps

\* paths.find((p) => p.id === id)
PathAt(pathList, hits) == IF hits = {} THEN Null ELSE pathList[Min(hits)]
FindPath(pathList, id) ==
    PathAt(pathList, {i \in 1..Len(pathList) : pathList[i].id = id})

\* path.steps.filter((s) => s.type !== 'verification').map((s) => s.target)
IsUpgradeStep(s) == s.type # "verification"
RECURSIVE Targets(_)
Targets(steps) ==
    IF steps = <<>> THEN <<>> ELSE <<Head(steps).target>> \o Targets(Tail(steps))
extractAffectedComponents(path) == Targets(SelectSeq(path.steps, IsUpgradeStep))

RECURSIVE NatToDecimal(_)
NatToDecimal(n) ==
    IF n < 10 THEN <<Digits[n + 1]>>
    ELSE Append(NatToDecimal(n \div 10), Digits[(n % 10) + 1])
\* `${n}` of a number
ToDecimal(n) == IF n < 0 THEN <<"-">> \o NatToDecimal(-n) ELSE NatToDecimal(n)

\* the end of a match of \s*minutes? that starts at i, 0 when there is none
\* (the s is optional and nothing follows it, so its presence is not looked at)
RECURSIVE MinutesEnd(_, _)
MinutesEnd(s, i) ==
    IF i <= Len(s) /\ s[i] = " " THEN MinutesEnd(s, i + 1)
    ELSE IF i + 5 <= Len(s) /\ SubSeq(s, i, i + 5) = Chars("minute")
         THEN i + 5 ELSE 0

\* parseInt(match[2] || match[1], 10) of a match of
\* /(\d+)-?(\d+)?\s*minutes?/ that starts at i, -1 when there is none there:
\* a is the end of group 1, j the start of group 2, b its end
MinutesOfGroups(s, i, a, j, b) ==
    IF MinutesEnd(s, (IF b < j THEN j ELSE b + 1)) = 0 THEN -1
    ELSE IF b < j THEN ParseNat(s, i, a)
    ELSE ParseNat(s, j, b)

AfterDash(s, a) == IF a + 1 <= Len(s) /\ s[a + 1] = "-" THEN a + 2 ELSE a + 1

MinutesAt(s, i) ==
    With(DigitRunEnd(s, i), LAMBDA a :
        IF a < i THEN -1
        ELSE MinutesOfGroups(s, i, a, AfterDash(s, a),
                             DigitRunEnd(s, AfterDash(s, a))))

\* the leftmost match; a step whose estimate has none adds nothing
RECURSIVE MinutesFrom(_, _)
MinutesFrom(s, i) ==
    IF i > Len(s) THEN 0
    ELSE IF MinutesAt(s, i) >= 0 THEN MinutesAt(s, i)
    ELSE MinutesFrom(s, i + 1)

StepMinutes(step) == MinutesFrom(Chars(step.estimatedDuration), 1)

\* for (const step of steps) totalMinutes += ...
RECURSIVE TotalMinutes(_)
TotalMinutes(steps) ==
    IF steps = <<>> THEN 0
    ELSE TotalMinutes(SubSeq(steps, 1, Len(steps) - 1))
             + StepMinutes(steps[Len(steps)])

\* a rendering that shows the hours before the first full hour too
RenderHours(totalMinutes) ==
    ToDecimal(totalMinutes \div 60) \o <<"h", " ">>
        \o ToDecimal(totalMinutes % 60) \o <<"m">>

\* `${totalMinutes} minutes` below an hour, else `${hours}h ${minutes}m`
RenderDuration(totalMinutes) ==
    IF totalMinutes < 60 THEN ToDecimal(totalMinutes) \o Chars(" minutes")
    ELSE ToDecimal(totalMinutes \div 60) \o <<"h", " ">>
             \o ToDecimal(totalMinutes % 60) \o <<"m">>

\* the string is given by its characters
calculateTotalDuration(steps) == RenderDuration(TotalMinutes(steps))

\* recommendedDate is Date.now() plus daysFromNow days
Window(id, daysFromNow, priority, reason, path) ==
    [id |-> id, daysFromNow |-> daysFromNow, priority |-> priority,
     reason |-> reason,
     affectedComponents |-> extractAffectedComponents(path),
     upgradePath |-> path]

ImmediateWindow(ps, criticalPath) ==
    IF ps.criticalIssues > 0 /\ criticalPath # Null
    THEN <<Window("immediate-window", 7, "high",
                  [text |-> "Critical issues detected that may block cluster operations",
                   days |-> <<>>],
                  criticalPath)>>
    ELSE <<>>

\* a regular window of priority high whatever the critical issues
RegularWindowHigh(ps, balancedPath) ==
    IF balancedPath # Null
    THEN <<Window("regular-maintenance", 30, "high",
                  [text |-> "Regular maintenance to keep platform current and supported",
                   days |-> <<>>],
                  balancedPath)>>
    ELSE <<>>

RegularWindow(ps, balancedPath) ==
    IF balancedPath # Null
    THEN <<Window("regular-maintenance", 30,
                  IF ps.criticalIssues > 0 THEN "high" ELSE "medium",
                  [text |-> "Regular maintenance to keep platform current and supported",
                   days |-> <<>>],
                  balancedPath)>>
    ELSE <<>>

\* a lifecycle window for every aggressive path, whatever the support expiry
LifecycleWindowAlways(ps, aggressivePath) ==
    IF aggressivePath # Null
    THEN <<Window("lifecycle-maintenance", 14, "high",
                  [text |-> "Platform support expires in ${days} days",
                   days |-> IF ps.supportExpiresIn = Undefined THEN <<>>
                            ELSE ToDecimal(ps.supportExpiresIn[1])],
                  aggressivePath)>>
    ELSE <<>>

\* if (supportExpiresIn && supportExpiresIn < 90): undefined and 0 are falsy
LifecycleWindow(ps, aggressivePath) ==
    IF Truthy(ps.supportExpiresIn) /\ ps.supportExpiresIn[1] < 90
       /\ aggressivePath # Null
    THEN <<Window("lifecycle-maintenance", 14, "high",
                  [text |-> "Platform support expires in ${days} days",
                   days |-> ToDecimal(ps.supportExpiresIn[1])],
                  aggressivePath)>>
    ELSE <<>>

\* the three rules with the lifecycle rule applied first
LifecycleWindowFirst(ps, pathList) ==
    LifecycleWindow(ps, FindPath(pathList, "aggressive-path"))
        \o ImmediateWindow(ps, FindPath(pathList, "critical-issues-path"))
        \o RegularWindow(ps, FindPath(pathList, "balanced-path"))

\* the three rules in the order of their dates: 7, 14 and 30 days
WindowsByDate(ps, pathList) ==
    ImmediateWindow(ps, FindPath(pathList, "critical-issues-path"))
        \o LifecycleWindow(ps, FindPath(pathList, "aggressive-path"))
        \o RegularWindow(ps, FindPath(pathList, "balanced-path"))

generateMaintenanceWindows(ps, pathList) ==
    ImmediateWindow(ps, FindPath(pathList, "critical-issues-path"))
        \o RegularWindow(ps, FindPath(pathList, "balanced-path"))
        \o LifecycleWindow(ps, FindPath(pathList, "aggressive-path"))

(***************************************************************************)
(* Snapshots of the parameter type of the planner's methods.               *)
(***************************************************************************)
InstalledVersion == "op.v1.2.0"
UnknownVersion == "unknown"

\* candidate upgrades: two patch, two minor and one major jump from
\* InstalledVersion; two of the channel names hold 'stable' or 'recommended'
Candidates ==
    { [targetVersion |-> "op.v1.2.3", channel |-> "recommended"],
      [targetVersion |-> "1.2.5", channel |-> "fast"],
      [targetVersion |-> "1.3.0", channel |-> "stable-1.3"],
      [targetVersion |-> "op.v1.4.0", channel |-> "candidate"],
      [targetVersion |-> "2.0.0", channel |-> "alpha"] }

UpgradeListsOfLen(n) ==
    {f \in [1..n -> Candidates] : \A i, j \in 1..n : i < j => f[i] # f[j]}
UpgradeLists(k) == UNION {UpgradeListsOfLen(n) : n \in 0..k}

\* lists one longer than MaxUpgrades with no stable or recommended channel:
\* the middle of such a list is neither its first nor its last entry
UnlabelledLists ==
    {f \in UpgradeListsOfLen(MaxUpgrades + 1) :
         \A i \in 1..Len(f) : ~IsStableChannel(f[i])}

IssueChoices(name) ==
    { <<>>, <<StaleChannelIssue(name)>>, <<EolIssue(name)>> }

OperatorStatusOf(name, namespace, currentVersion, issues, upgrades) ==
    [installation |-> [name |-> name, namespace |-> namespace,
                       currentVersion |-> currentVersion],
     availableUpgrades |-> upgrades,
     issues |-> issues]

OperatorChoices(name, namespace, k) ==
    {OperatorStatusOf(name, namespace, InstalledVersion, i, u) :
        i \in IssueChoices(name), u \in UpgradeLists(k)}

\* no, one or two operators with at most MaxUpgrades available upgrades in
\* all, or one operator with a longer list on channels without a stable or
\* recommended name
OperatorLists ==
    {<<>>}
    \cup {<<OperatorStatusOf("gitops", "openshift-operators", InstalledVersion,
                             i, u)>> :
              i \in IssueChoices("gitops"), u \in UnlabelledLists}
    \cup {<<a>> : a \in OperatorChoices("gitops", "openshift-operators",
                                        MaxUpgrades)}
    \cup UNION {{<<a, b>> : b \in OperatorChoices("quay-operator", "quay-enterprise",
                                     MaxUpgrades - Len(a.availableUpgrades))} :
                a \in OperatorChoices("gitops", "openshift-operators",
                                      MaxUpgrades)}

ClusterOf(updates) ==
    [currentVersion |-> "4.16.0", channel |-> "stable-4.16",
     availableUpdates |-> updates]

ClusterChoices ==
    {ClusterOf(<<>>), ClusterOf(<<"4.16.1">>), ClusterOf(<<"4.16.1", "4.16.5">>)}

SupportExpiryChoices == {Undefined, Some(0 - 3), Some(0), Some(45), Some(90)}

\* the support expiry is drawn for the snapshots of at most one operator
SupportExpiryFor(ops) ==
    IF Len(ops) <= 1 THEN SupportExpiryChoices ELSE {Undefined}

(***************************************************************************)
(* The state of the services before a request: nothing read, nothing       *)
(* computed, an empty lifecycle cache.                                     *)
(***************************************************************************)
NoInventory == [none |-> TRUE]

\* no call has been made
NoCall == [none |-> TRUE]

NoRequest ==
    /\ pc = "start"
    /\ platformStatus = Null
    /\ paths = <<>>
    /\ windows = <<>>
    /\ inventory = NoInventory
    /\ cursor = 0
    /\ operators = <<>>

NoDetection ==
    /\ detectArgs = NoCall
    /\ detected = NoCall

\* no step pushed yet: calculateTotalDuration of no step is '0 minutes'
NoDuration ==
    /\ durationSteps = NoSteps
    /\ totalDuration = calculateTotalDuration(<<>>)

NoRepeat ==
    /\ repeatStatus = Null
    /\ firstPaths = NoCall
    /\ repeatWindows = NoCall
    /\ secondPaths = NoCall

\* the keys looked up when getOperatorLifecycleInfo is called on its own
CacheKeys == {<<"gitops", "op.v1.2.0">>, <<"quay-operator", "op.v1.2.0">>}

\* private cacheExpiry: number = 3600000
cacheExpiry == 3600000
\* Date.now() when the service is constructed (any time later than cacheExpiry
\* after the origin of the clock), and the step of the clock: 20 minutes
StartTime == 2 * cacheExpiry
TickMs == cacheExpiry \div 3

\* lifecycleCache = new Map(); lastCacheUpdate = 0
EmptyCache ==
    /\ now = StartTime
    /\ lifecycleCache = <<>>
    /\ lastCacheUpdate = 0
    /\ fetching = EmptyBag
    /\ fetchedAt = <<>>
    /\ lookup = NoCall

\* a read that has not been made
NotRead == [status |-> "not-read", channels |-> <<>>]

\* no call of getOperatorStatus is in progress
NoTurn ==
    [pc |-> "idle", installation |-> NotRead, lifecycleInfo |-> NotRead,
     availableChannels |-> <<>>, channel |-> 0, availableUpgrades |-> <<>>]

NoBuild ==
    /\ clusterApi = <<>>
    /\ turn = NoTurn

\* the page is not mounted
NoPage ==
    /\ routeParams = Null
    /\ pageOperator = Null
    /\ pageLoading = TRUE
    /\ pageError = Null
    /\ inFlight = {}
    /\ requested = 0
    /\ operatorOf = 0
    /\ errorOf = 0

(***************************************************************************)
(* UpgradePlannerService.getUpgradeRecommendations after getPlatformStatus *)
(* has returned: generateUpgradePaths, then generateMaintenanceWindows, on *)
(* the snapshot received.                                                  *)
(***************************************************************************)
\* recommendedPaths is what generateUpgradePaths returns; when it throws,
\* catch (error): throw new Error('Failed to generate upgrade recommendations')
Continue(result) ==
    IF result = Throw
    THEN pc' = "failed" /\ paths' = paths
    ELSE pc' = "windows" /\ paths' = result.returned

\* const recommendedPaths = await this.generateUpgradePaths(platformStatus)
GenerateUpgradePaths ==
    /\ pc = "paths"
    /\ Continue(generateUpgradePathsAt(platformStatus, now))
    /\ platformStatus' = SnapshotAfter(platformStatus)
    /\ UNCHANGED <<windows, inventory, cursor, operators>>
    /\ UNCHANGED otherVars

\* const maintenanceWindows = this.generateMaintenanceWindows(...); return
GenerateMaintenanceWindows ==
    /\ pc = "windows"
    /\ windows' = generateMaintenanceWindows(platformStatus, paths)
    /\ pc' = "done"
    /\ UNCHANGED <<platformStatus, paths, inventory, cursor, operators>>
    /\ UNCHANGED otherVars

(***************************************************************************)
(* LifecycleService.getOperatorLifecycleInfo and its cache.  A key is the  *)
(* pair (operatorName, version); the names hold no colon, so the pair and  *)
(* the string `${operatorName}:${version}` identify the same entries.      *)
(***************************************************************************)
\* Map.prototype.set
Put(map, key, value) == (key :> value) @@ map

\* what a lookup returned: the entry, whether it came from the cache, the time
\* of the call and the time the returned entry was fetched
Served(key, info, fromCache, fetchTime) ==
    [key |-> key, info |-> info, fromCache |-> fromCache, at |-> now,
     fetched |-> fetchTime]

\* the cache of the service and its history, as one value
CacheNow ==
    [entries |-> lifecycleCache, lastCacheUpdate |-> lastCacheUpdate,
     fetchedAt |-> fetchedAt, lookup |-> lookup]

\* lifecycleCache.has(cacheKey) && Date.now() - lastCacheUpdate < cacheExpiry
IsFreshIn(c, key) ==
    key \in DOMAIN c.entries /\ now - c.lastCacheUpdate < cacheExpiry

IsFresh(key) == IsFreshIn(CacheNow, key)

\* lifecycleCache.set(cacheKey, lifecycleInfo); lastCacheUpdate = Date.now()
Cached(c, key, info) ==
    [entries |-> Put(c.entries, key, info), lastCacheUpdate |-> now,
     fetchedAt |-> Put(c.fetchedAt, key, now),
     lookup |-> Served(key, info, FALSE, now)]

\* the cache after a write
CacheBecomes(c) ==
    /\ lifecycleCache' = c.entries
    /\ lastCacheUpdate' = c.lastCacheUpdate
    /\ fetchedAt' = c.fetchedAt
    /\ lookup' = c.lookup

\* the strings cleanVersion returns for the versions and channel heads of the
\* model
VersionTexts ==
    {"1.2.0", "1.2.3", "1.2.5", "1.3.0", "1.4.0", "2.0.0", "latest", "unknown"}

\* the string of a cleaned version
TextOf(chars) == CHOOSE s \in VersionTexts : Chars(s) = chars

\* getOperatorLifecycleInfo finds the entry of the key in the cache:
\* return this.lifecycleCache.get(cacheKey)
ServeCached(key) ==
    /\ lookup' = Served(key, lifecycleCache[key], TRUE, fetchedAt[key])
    /\ UNCHANGED <<now, lifecycleCache, lastCacheUpdate, fetching, fetchedAt>>

\* getOperatorLifecycleInfo misses the cache and yields at
\* await this.fetchLifecycleInfoFromAPI(operatorName, version): the fetch is
\* in flight and nothing is written
StartFetch(key) ==
    /\ fetching' = fetching (+) SetToBag({key})
    /\ UNCHANGED <<now, lifecycleCache, lastCacheUpdate, fetchedAt, lookup>>

\* getOperatorLifecycleInfo resumes with what the fetch answered:
\* lifecycleCache.set(cacheKey, lifecycleInfo); lastCacheUpdate = Date.now()
FinishFetch(key) ==
    /\ fetching' = fetching (-) SetToBag({key})
    /\ CacheBecomes(Cached(CacheNow, key, fetchLifecycleInfoFromAPI(key[1], key[2])))
    /\ UNCHANGED now

(***************************************************************************)
(* getUpgradeRecommendations from its first await on:                      *)
(* LifecycleService.getPlatformStatus on the objects of a cluster, one     *)
(* step for each read of the cluster API it awaits, each answered when it  *)
(* is made; a lifecycle lookup is a step up to the cache check and, when   *)
(* it misses, a step from the fetch it awaits to its return; then the      *)
(* planner on the snapshot returned.                                       *)
(***************************************************************************)
\* the channels a package manifest may list
ChannelPool ==
    { [name |-> "stable", currentCSV |-> "op.v1.2.3", deprecated |-> FALSE],
      [name |-> "stable", currentCSV |-> "op.v1.2.3", deprecated |-> TRUE],
      [name |-> "fast", currentCSV |-> "op.v1.4.0", deprecated |-> FALSE],
      [name |-> "candidate", currentCSV |-> "latest", deprecated |-> FALSE],
      [name |-> "alpha", currentCSV |-> "op.v1.2.0", deprecated |-> FALSE] }

\* channel names are unique within a package
ChannelListsOfLen(n) ==
    {f \in [1..n -> ChannelPool] :
         \A i, j \in 1..n : i < j => f[i].name # f[j].name}
ChannelLists == UNION {ChannelListsOfLen(n) : n \in 0..MaxChannels}

\* the outcomes of a read of the cluster API
ReadOutcomes == {"ok", "not-found", "error"}

\* the Subscription objects of one operator
SubscriptionChoices(name, namespace) ==
    {[name |-> name, namespace |-> namespace, currentCSV |-> v,
      channel |-> "stable"] : v \in {InstalledVersion, NoValue}}

\* one subscription, or two: of two packages, or of one package in two
\* namespaces
SubscriptionLists ==
    {<<a>> : a \in SubscriptionChoices("gitops", "openshift-operators")}
    \cup {<<a, b>> : a \in SubscriptionChoices("gitops", "openshift-operators"),
                     b \in SubscriptionChoices("quay-operator", "quay-enterprise")
                           \cup SubscriptionChoices("gitops", "gitops-staging")}

\* the ClusterVersion object: the fields mapToClusterVersion and
\* detectUpgradeIssues read
ClusterVersionObject(updates) ==
    [version |-> "4.16.0", channel |-> "stable-4.16", availableUpdates |-> updates]

ClusterVersionData ==
    {ClusterVersionObject(u) : u \in {<<>>, <<"4.16.1">>, <<"4.16.1", "4.16.5">>}}

\* the channels of the quay-operator package
QuayChannelLists ==
    {<<>>, <<[name |-> "stable", currentCSV |-> "op.v1.2.3", deprecated |-> TRUE]>>}

HasPackage(subs, packageName) ==
    \E i \in 1..Len(subs) : subs[i].name = packageName

\* the objects of a cluster: the cluster version, the subscriptions and the
\* channels of the package manifests of gitops and of quay-operator (a package
\* nobody subscribes to has none)
ApiContents ==
    {api \in {[clusterVersion |-> c, subscriptions |-> subs,
               manifests |-> [gitops |-> g, quay |-> q]] :
                 c \in ClusterVersionData, subs \in SubscriptionLists,
                 g \in ChannelLists, q \in QuayChannelLists} :
         HasPackage(api.subscriptions, "quay-operator")
             \/ api.manifests.quay = <<>>}

\* the answers of a PackageManifest read
Manifest(channels) == [status |-> "ok", channels |-> channels]
ManifestNotFound == [status |-> "not-found", channels |-> <<>>]
ManifestError == [status |-> "error", channels |-> <<>>]

\* the channels of the PackageManifest of a package
ManifestOf(api, packageName) ==
    IF packageName = "gitops" THEN api.manifests.gitops ELSE api.manifests.quay

\* the answer of the PackageManifest read of olmClient.getOperatorChannels
ManifestRead(api, packageName, outcome) ==
    IF outcome = "ok" THEN Manifest(ManifestOf(api, packageName))
    ELSE IF outcome = "not-found" THEN ManifestNotFound
    ELSE ManifestError

\* what the reads of one subscription have answered: nothing yet
ReadsOf(sub) ==
    [name |-> sub.name, namespace |-> sub.namespace, currentCSV |-> NoValue,
     channel |-> NoValue, lookup |-> "pending", lifecycleInfo |-> NotRead,
     manifest |-> NotRead, clusterVersion |-> NotRead]

\* the answer of olmClient.getOperatorSubscription(name, namespace)
SubscriptionRead(reads, sub, outcome) ==
    IF outcome = "ok"
    THEN [reads EXCEPT !.lookup = outcome, !.currentCSV = sub.currentCSV,
                       !.channel = sub.channel]
    ELSE [reads EXCEPT !.lookup = outcome]

InitStatus ==
    /\ NoRequest
    /\ NoDetection
    /\ NoDuration
    /\ NoRepeat
    /\ EmptyCache
    /\ clusterApi \in ApiContents
    /\ turn = NoTurn
    /\ NoPage

\* const clusterVersionData = await olmClient.getClusterVersion() answers
FetchClusterVersion ==
    /\ pc = "start"
    /\ inventory' = [clusterVersion |-> clusterApi.clusterVersion,
                     subscriptions |-> <<>>]
    /\ pc' = "subscriptions"
    /\ UNCHANGED <<platformStatus, paths, windows, cursor, operators>>
    /\ UNCHANGED <<cacheVars, buildVars>>
    /\ UNCHANGED outsideStatus

\* olmClient.getClusterVersion() or olmClient.getOperatorSubscriptions() throws:
\* catch (error): throw new Error('Failed to get platform status'), which the
\* catch of getUpgradeRecommendations answers with
\* throw new Error('Failed to generate upgrade recommendations')
FailPlatformStatus ==
    /\ pc \in {"start", "subscriptions"}
    /\ pc' = "failed"
    /\ UNCHANGED <<platformStatus, paths, windows, inventory, cursor, operators>>
    /\ UNCHANGED <<cacheVars, buildVars>>
    /\ UNCHANGED outsideStatus

\* getOperatorStatus is entered and awaits olmClient.getOperatorSubscription
AwaitSubscription == [NoTurn EXCEPT !.pc = "subscription"]

\* the loop calls getOperatorStatus for subscription number i, if there is one
TurnOf(i, subscriptions) ==
    IF i <= Len(subscriptions) THEN AwaitSubscription ELSE NoTurn

\* const subscriptions = await olmClient.getOperatorSubscriptions() answers;
\* the loop starts
ListSubscriptions ==
    /\ pc = "subscriptions"
    /\ inventory' = [inventory EXCEPT !.subscriptions =
           [i \in 1..Len(clusterApi.subscriptions) |->
               ReadsOf(clusterApi.subscriptions[i])]]
    /\ cursor' = 1
    /\ operators' = <<>>
    /\ pc' = "operators"
    /\ turn' = TurnOf(1, clusterApi.subscriptions)
    /\ UNCHANGED <<platformStatus, paths, windows>>
    /\ UNCHANGED <<cacheVars, clusterApi>>
    /\ UNCHANGED outsideStatus

\* a push that empties the list when a status is missing
PushStatusOrReset(ops, status) ==
    IF status = Null THEN <<>> ELSE Append(ops, status)

\* if (status) operators.push(status)
PushStatus(ops, status) == IF status = Null THEN ops ELSE Append(ops, status)

\* getOperatorStatus returns status; the loop goes on to the next subscription
EndTurn(status) ==
    /\ operators' = PushStatus(operators, status)
    /\ cursor' = cursor + 1
    /\ turn' = TurnOf(cursor + 1, inventory.subscriptions)

\* the call of getOperatorStatus for subscription number cursor is at position p
InTurn(p) ==
    /\ pc = "operators"
    /\ cursor <= Len(inventory.subscriptions)
    /\ turn.pc = p

\* const installation = await olmClient.getOperatorSubscription(name, namespace)
\* answers: if (!installation) return null; a failure is caught: return null
ReadSubscription ==
    /\ InTurn("subscription")
    /\ \E outcome \in ReadOutcomes :
           /\ inventory' = [inventory EXCEPT !.subscriptions[cursor] =
                  SubscriptionRead(@, clusterApi.subscriptions[cursor], outcome)]
           /\ IF outcome = "ok"
              THEN /\ turn' = [turn EXCEPT !.pc = "lifecycle", !.installation =
                          mapSubscriptionToInstallation(
                              clusterApi.subscriptions[cursor])]
                   /\ UNCHANGED <<cursor, operators>>
              ELSE EndTurn(Null)
    /\ UNCHANGED <<pc, platformStatus, paths, windows>>
    /\ UNCHANGED <<cacheVars, clusterApi>>
    /\ UNCHANGED outsideStatus

\* const cacheKey = `${operatorName}:${version}` of the lookup of the turn
LifecycleKey == <<turn.installation.name, turn.installation.currentVersion>>

\* the turn goes on with the lifecycle information of the installed version
WithLifecycleInfo(info) ==
    /\ turn' = [turn EXCEPT !.pc = "channels", !.lifecycleInfo = info]
    /\ inventory' = [inventory EXCEPT
           !.subscriptions[cursor].lifecycleInfo = info]

\* const lifecycleInfo = await this.getOperatorLifecycleInfo(
\*     installation.name, installation.currentVersion) is entered: the cache
\* check returns the entry, or the call yields at the fetch it awaits
LookupLifecycleInfo ==
    /\ InTurn("lifecycle")
    /\ IF IsFresh(LifecycleKey)
       THEN /\ ServeCached(LifecycleKey)
            /\ WithLifecycleInfo(lifecycleCache[LifecycleKey])
       ELSE /\ StartFetch(LifecycleKey)
            /\ turn' = [turn EXCEPT !.pc = "lifecycle-fetch"]
            /\ UNCHANGED inventory
    /\ UNCHANGED <<pc, platformStatus, paths, windows, cursor, operators>>
    /\ UNCHANGED clusterApi
    /\ UNCHANGED outsideStatus

\* the fetch of the lookup resolves: the entry and lastCacheUpdate are written
\* and getOperatorStatus receives lifecycleInfo
ResumeLifecycleLookup ==
    /\ InTurn("lifecycle-fetch")
    /\ FinishFetch(LifecycleKey)
    /\ WithLifecycleInfo(fetchLifecycleInfoFromAPI(LifecycleKey[1], LifecycleKey[2]))
    /\ UNCHANGED <<pc, platformStatus, paths, windows, cursor, operators>>
    /\ UNCHANGED clusterApi
    /\ UNCHANGED outsideStatus

\* const availableChannels = await olmClient.getOperatorChannels(...) answers;
\* a failure other than 404 is caught: return null
ReadChannels ==
    /\ InTurn("channels")
    /\ \E outcome \in ReadOutcomes :
           \E manifest \in {ManifestRead(clusterApi, turn.installation.name,
                                         outcome)} :
               /\ inventory' = [inventory EXCEPT
                      !.subscriptions[cursor].manifest = manifest]
               /\ IF ChannelsOf(manifest) = Throw
                  THEN EndTurn(Null)
                  ELSE /\ turn' = [turn EXCEPT !.pc = "upgrades", !.channel = 1,
                              !.availableChannels = ChannelsOf(manifest).returned]
                       /\ UNCHANGED <<cursor, operators>>
    /\ UNCHANGED <<pc, platformStatus, paths, windows>>
    /\ UNCHANGED <<cacheVars, clusterApi>>
    /\ UNCHANGED outsideStatus

RECURSIVE NextNewer(_, _, _)
\* for (const channel of availableChannels) from channel number k on: the
\* first channel whose head is newer than the installed version, or the
\* number after the last channel
NextNewer(installation, availableChannels, k) ==
    IF k > Len(availableChannels) THEN k
    ELSE IF IsNewer(cleanVersion(installation.currentVersion),
                    cleanVersion(availableChannels[k].currentCSV))
    THEN k
    ELSE NextNewer(installation, availableChannels, k + 1)

\* the key of getOperatorLifecycleInfo(installation.name, latestVersion)
TargetKey(installation, channel) ==
    <<installation.name, TextOf(cleanVersion(channel.currentCSV))>>

\* upgrades.push({...}) for the channel the loop is at; the loop goes on
PushUpgrade(k) ==
    turn' = [turn EXCEPT !.pc = "upgrades", !.channel = k + 1,
                 !.availableUpgrades =
                     Append(@, UpgradeTo(turn.availableChannels[k]))]

\* const availableUpgrades = await this.detectAvailableUpgrades(installation,
\* availableChannels) runs its loop up to the next lookup: the lookup of the
\* next newer channel head returns the cached entry, or yields at the fetch
\* it awaits; after the last channel the upgrades are returned and
\* detectUpgradeIssues awaits the cluster version
DetectAvailableUpgrades ==
    /\ InTurn("upgrades")
    /\ \E k \in {NextNewer(turn.installation, turn.availableChannels,
                            turn.channel)} :
           IF k > Len(turn.availableChannels)
           THEN /\ turn' = [turn EXCEPT !.pc = "cluster", !.channel = k]
                /\ UNCHANGED cacheVars
           ELSE IF IsFresh(TargetKey(turn.installation, turn.availableChannels[k]))
           THEN /\ ServeCached(TargetKey(turn.installation,
                                         turn.availableChannels[k]))
                /\ PushUpgrade(k)
           ELSE /\ StartFetch(TargetKey(turn.installation,
                                        turn.availableChannels[k]))
                /\ turn' = [turn EXCEPT !.pc = "target-fetch", !.channel = k]
    /\ UNCHANGED <<pc, platformStatus, paths, windows, inventory, cursor,
                   operators>>
    /\ UNCHANGED clusterApi
    /\ UNCHANGED outsideStatus

\* the fetch of a target version resolves: the entry and lastCacheUpdate are
\* written and the upgrade is pushed
ResumeTargetLookup ==
    /\ InTurn("target-fetch")
    /\ FinishFetch(TargetKey(turn.installation,
                             turn.availableChannels[turn.channel]))
    /\ PushUpgrade(turn.channel)
    /\ UNCHANGED <<pc, platformStatus, paths, windows, inventory, cursor,
                   operators>>
    /\ UNCHANGED clusterApi
    /\ UNCHANGED outsideStatus

\* the answers of olmClient.getClusterVersion(): the object the cluster holds,
\* or an exception
ClusterVersionAnswers == {Throw, Return(clusterApi.clusterVersion)}

\* const issues = await this.detectUpgradeIssues(...): the cluster version read
\* inside it answers or rejects; getOperatorStatus returns the status, or null
\* from its catch
ReadClusterVersionAgain ==
    /\ InTurn("cluster")
    /\ \E answer \in ClusterVersionAnswers :
           /\ inventory' = [inventory EXCEPT
                  !.subscriptions[cursor].clusterVersion = answer]
           /\ EndTurn(getOperatorStatus(inventory.subscriptions[cursor],
                          turn.lifecycleInfo, Return(turn.availableChannels),
                          turn.availableUpgrades, answer))
    /\ UNCHANGED <<pc, platformStatus, paths, windows>>
    /\ UNCHANGED <<cacheVars, clusterApi>>
    /\ UNCHANGED outsideStatus

\* the counters, the support expiry and the returned snapshot, which
\* getUpgradeRecommendations receives
ReturnPlatformStatus ==
    /\ pc = "operators"
    /\ cursor > Len(inventory.subscriptions)
    /\ platformStatus' =
           PlatformStatusOf(mapToClusterVersion(inventory.clusterVersion),
               operators,
               calculateSupportExpiry(
                   mapToClusterVersion(inventory.clusterVersion), operators))
    /\ pc' = "paths"
    /\ UNCHANGED <<paths, windows, inventory, cursor, operators>>
    /\ UNCHANGED <<cacheVars, buildVars>>
    /\ UNCHANGED outsideStatus

NextStatus ==
    \/ FetchClusterVersion
    \/ FailPlatformStatus
    \/ ListSubscriptions
    \/ ReadSubscription
    \/ LookupLifecycleInfo
    \/ ResumeLifecycleLookup
    \/ ReadChannels
    \/ DetectAvailableUpgrades
    \/ ResumeTargetLookup
    \/ ReadClusterVersionAgain
    \/ ReturnPlatformStatus
    \/ GenerateUpgradePaths
    \/ GenerateMaintenanceWindows

SpecStatus == InitStatus /\ [][NextStatus]_vars

(***************************************************************************)
(* A request of getUpgradeRecommendations on a cluster whose packages list *)
(* channel heads a patch, a minor and a major number above the installed   *)
(* version, on current channels that are deprecated or not, and a head     *)
(* that is no version.                                                     *)
(***************************************************************************)
PlannerChannelPool ==
    { [name |-> "stable", currentCSV |-> "op.v1.2.5", deprecated |-> FALSE],
      [name |-> "stable", currentCSV |-> "op.v1.2.3", deprecated |-> TRUE],
      [name |-> "stable", currentCSV |-> "op.v1.2.0", deprecated |-> TRUE],
      [name |-> "fast", currentCSV |-> "op.v1.4.0", deprecated |-> FALSE],
      [name |-> "fast", currentCSV |-> "op.v1.2.5", deprecated |-> FALSE],
      [name |-> "candidate", currentCSV |-> "op.v2.0.0", deprecated |-> FALSE],
      [name |-> "candidate", currentCSV |-> "latest", deprecated |-> FALSE] }

PlannerChannelListsOfLen(n) ==
    {f \in [1..n -> PlannerChannelPool] :
         \A i, j \in 1..n : i < j => f[i].name # f[j].name}
PlannerChannelLists == UNION {PlannerChannelListsOfLen(n) : n \in 0..MaxChannels}

\* const lifecycleService = new LifecycleService(); no request has been made
Init ==
    /\ NoRequest
    /\ NoDetection
    /\ NoDuration
    /\ NoRepeat
    /\ EmptyCache
    /\ \E c \in ClusterVersionData, subs \in SubscriptionLists,
          g \in PlannerChannelLists, q \in QuayChannelLists :
           /\ HasPackage(subs, "quay-operator") \/ q = <<>>
           /\ clusterApi = [clusterVersion |-> c, subscriptions |-> subs,
                            manifests |-> [gitops |-> g, quay |-> q]]
    /\ turn = NoTurn
    /\ NoPage

Next ==
    \/ FetchClusterVersion
    \/ FailPlatformStatus
    \/ ListSubscriptions
    \/ ReadSubscription
    \/ LookupLifecycleInfo
    \/ ResumeLifecycleLookup
    \/ ReadChannels
    \/ DetectAvailableUpgrades
    \/ ResumeTargetLookup
    \/ ReadClusterVersionAgain
    \/ ReturnPlatformStatus
    \/ GenerateUpgradePaths
    \/ GenerateMaintenanceWindows

Spec == Init /\ [][Next]_vars

(***************************************************************************)
(* LifecycleService.detectUpgradeIssues and calculateHealthStatus on the   *)
(* lifecycle info a provider can report for one operator: the rules before *)
(* the await, then the answer of the cluster version read.                 *)
(***************************************************************************)
SupportPhases ==
    {"full-support", "maintenance-support", "end-of-life", "deprecated", "unknown"}

\* maxOCPVersion: absent, a version of two numbers, versions of three
CeilingChoices == {NoValue, "4.16", "4.16.0", "4.16.3", "4.17.0"}

\* what the lookup reports: the defaults, or a phase and a ceiling of its own
LifecycleInfoChoices(operatorName, version) ==
    {getDefaultLifecycleInfo(operatorName, version)}
    \cup {[operatorName |-> operatorName, version |-> version,
           lifecycleModel |-> "platform-agnostic", supportPhase |-> p,
           maintenanceSupportEndsAt |-> Undefined, maxOCPVersion |-> m] :
              p \in SupportPhases, m \in CeilingChoices}

\* status.availableUpdates of the cluster version: versions, and one entry
\* that is no version
UpdatePool == {"4.16.1", "4.16.5", "4.17.0", "latest"}

UpdateListsOfLen(n) ==
    {f \in [1..n -> UpdatePool] : \A i, j \in 1..n : i < j => f[i] # f[j]}
UpdateLists == UNION {UpdateListsOfLen(n) : n \in 0..MaxUpdates}

CurrentChannelChoices ==
    {[name |-> "stable", currentCSV |-> InstalledVersion, deprecated |-> d] :
        d \in BOOLEAN}

\* the arguments of the call; clusterVersion is the answer of the read the
\* method makes, once it is made
DetectArgsChoices ==
    {[installation |-> mapSubscriptionToInstallation(
                           [name |-> "gitops", namespace |-> "openshift-operators",
                            currentCSV |-> InstalledVersion, channel |-> "stable"]),
      lifecycleInfo |-> l, currentChannel |-> c, clusterVersion |-> NotRead] :
        l \in LifecycleInfoChoices("gitops", InstalledVersion),
        c \in CurrentChannelChoices}

InitDetect ==
    /\ NoRequest
    /\ NoDuration
    /\ NoRepeat
    /\ EmptyCache
    /\ NoBuild
    /\ NoPage
    /\ detectArgs \in DetectArgsChoices
    /\ detected = NoCall

\* detectUpgradeIssues has run its synchronous rules and awaits the cluster
\* version
Awaiting(issues) == [awaiting |-> "getClusterVersion", issues |-> issues]

\* const issues = await this.detectUpgradeIssues(...);
\* const healthStatus = this.calculateHealthStatus(issues)
DetectedOf(issues) ==
    [issues |-> issues, healthStatus |-> calculateHealthStatus(issues)]

\* detectUpgradeIssues up to const clusterVersion = await olmClient.getClusterVersion()
DetectLifecycleIssues ==
    /\ detected = NoCall
    /\ detected' = Awaiting(LifecycleIssues(detectArgs.installation,
                                detectArgs.lifecycleInfo,
                                detectArgs.currentChannel))
    /\ UNCHANGED detectArgs
    /\ UNCHANGED outsideDetect

\* what olmClient.getClusterVersion() can answer inside detectUpgradeIssues
DetectAnswers ==
    {Throw} \cup {Return(ClusterVersionObject(u)) : u \in UpdateLists}

\* the read answers: the version-ceiling rule and the health status; or it
\* rejects: detectUpgradeIssues rejects and getOperatorStatus returns null
DetectUpgradeIssues ==
    /\ detected # NoCall
    /\ "awaiting" \in DOMAIN detected
    /\ \E answer \in DetectAnswers :
           /\ detectArgs' = [detectArgs EXCEPT !.clusterVersion = answer]
           /\ detected' =
                  IF answer = Throw THEN Null
                  ELSE DetectedOf(detected.issues
                           \o CeilingIssues(detectArgs.installation,
                                  detectArgs.lifecycleInfo,
                                  answer.returned.availableUpdates))
    /\ UNCHANGED outsideDetect

NextDetect ==
    \/ DetectLifecycleIssues
    \/ DetectUpgradeIssues

SpecDetect == InitDetect /\ [][NextDetect]_vars

(***************************************************************************)
(* The total duration of a path: steps are pushed one at a time and        *)
(* calculateTotalDuration is applied to the steps pushed so far.           *)
(***************************************************************************)
DurationOperator ==
    [installation |-> [name |-> "gitops", currentVersion |-> "op.v1.2.0"]]
DurationUpgrade == [targetVersion |-> "1.3.0", channel |-> "stable-1.3"]
DurationCluster == [currentVersion |-> "4.16.0", channel |-> "stable-4.16"]

\* the three kinds of step the strategies push, with their estimates
StepChoices ==
    {VerificationStep, OperatorStep(DurationOperator, DurationUpgrade),
     ClusterStep(DurationCluster, "4.16.1")}

InitDuration ==
    /\ NoRequest
    /\ NoDetection
    /\ NoDuration
    /\ NoRepeat
    /\ EmptyCache
    /\ NoBuild
    /\ NoPage

\* steps.push(...); const totalDuration = this.calculateTotalDuration(steps)
PushStep ==
    /\ Len(durationSteps.steps) < MaxSteps
    /\ \E step \in StepChoices : durationSteps' = Push(durationSteps, step)
    /\ totalDuration' = calculateTotalDuration(durationSteps'.steps)
    /\ UNCHANGED outsideDuration

NextDuration == PushStep

SpecDuration == InitDuration /\ [][NextDuration]_vars

(***************************************************************************)
(* generateUpgradePaths and generateMaintenanceWindows called on a         *)
(* snapshot of their parameter type: generateUpgradePaths, then            *)
(* generateMaintenanceWindows on what it returned, then                    *)
(* generateUpgradePaths once more on the same snapshot at a later time of  *)
(* the clock.  The upgrades of the snapshot are pairs                      *)
(* detectAvailableUpgrades pushes; its issues and its support expiry are   *)
(* what a lifecycle lookup that answers with dates would lead to.          *)
(***************************************************************************)
InitRepeat ==
    /\ NoRequest
    /\ NoDetection
    /\ NoDuration
    /\ \E c \in ClusterChoices, ops \in OperatorLists :
           \E s \in SupportExpiryFor(ops) :
               repeatStatus = PlatformStatusOf(c, ops, s)
    /\ firstPaths = NoCall
    /\ repeatWindows = NoCall
    /\ secondPaths = NoCall
    /\ EmptyCache
    /\ NoBuild
    /\ NoPage

\* await this.generateUpgradePaths(platformStatus)
CallGenerateUpgradePaths ==
    /\ firstPaths = NoCall
    /\ firstPaths' = generateUpgradePathsAt(repeatStatus, now)
    /\ repeatStatus' = SnapshotAfter(repeatStatus)
    /\ UNCHANGED <<repeatWindows, secondPaths>>
    /\ UNCHANGED outsideRepeat

\* this.generateMaintenanceWindows(platformStatus, recommendedPaths)
CallGenerateMaintenanceWindows ==
    /\ firstPaths \notin {NoCall, Throw}
    /\ repeatWindows = NoCall
    /\ repeatWindows' =
           Return(generateMaintenanceWindows(repeatStatus, firstPaths.returned))
    /\ UNCHANGED <<repeatStatus, firstPaths, secondPaths>>
    /\ UNCHANGED outsideRepeat

\* time passes between the two calls of generateUpgradePaths
TimePasses ==
    /\ repeatWindows # NoCall
    /\ secondPaths = NoCall
    /\ now = StartTime
    /\ now' = now + TickMs
    /\ UNCHANGED <<lifecycleCache, lastCacheUpdate, fetching, fetchedAt, lookup>>
    /\ UNCHANGED outsideCache

\* the same call on the same snapshot once more
CallGenerateUpgradePathsAgain ==
    /\ now > StartTime
    /\ secondPaths = NoCall
    /\ secondPaths' = generateUpgradePathsAt(repeatStatus, now)
    /\ repeatStatus' = SnapshotAfter(repeatStatus)
    /\ UNCHANGED <<firstPaths, repeatWindows>>
    /\ UNCHANGED outsideRepeat

NextRepeat ==
    \/ CallGenerateUpgradePaths
    \/ CallGenerateMaintenanceWindows
    \/ TimePasses
    \/ CallGenerateUpgradePathsAgain

SpecRepeat == InitRepeat /\ [][NextRepeat]_vars

(***************************************************************************)
(* Calls of getOperatorLifecycleInfo that overlap: a call that misses the  *)
(* cache awaits its fetch, and nothing keeps another call of the same key  *)
(* from missing and fetching in the meantime.                              *)
(***************************************************************************)
InitCache ==
    /\ NoRequest
    /\ NoDetection
    /\ NoDuration
    /\ NoRepeat
    /\ EmptyCache
    /\ NoBuild
    /\ NoPage

\* time passes
Tick ==
    /\ now < StartTime + MaxTicks * TickMs
    /\ now' = now + TickMs
    /\ UNCHANGED <<lifecycleCache, lastCacheUpdate, fetching, fetchedAt, lookup>>
    /\ UNCHANGED outsideCache

\* return this.lifecycleCache.get(cacheKey)
LookupCached(key) ==
    /\ IsFresh(key)
    /\ ServeCached(key)
    /\ UNCHANGED outsideCache

\* the cache check failed: await this.fetchLifecycleInfoFromAPI(...)
BeginFetch(key) ==
    /\ ~IsFresh(key)
    /\ BagCardinality(fetching) < MaxFetches
    /\ StartFetch(key)
    /\ UNCHANGED outsideCache

\* a fetch resolves:
\* lifecycleCache.set(cacheKey, lifecycleInfo); lastCacheUpdate = Date.now()
CompleteFetch(key) ==
    /\ BagIn(key, fetching)
    /\ FinishFetch(key)
    /\ UNCHANGED outsideCache

NextCache ==
    \/ Tick
    \/ \E key \in CacheKeys : LookupCached(key)
    \/ \E key \in CacheKeys : BeginFetch(key)
    \/ \E key \in CacheKeys : CompleteFetch(key)

SpecCache == InitCache /\ [][NextCache]_vars

(***************************************************************************)
(* LifecycleService.getPlatformStatus while the cluster changes.  The      *)
(* cluster version is read once for the snapshot and once more inside      *)
(* detectUpgradeIssues for each operator; every read is an await, so the   *)
(* available updates the cluster reports can change between two reads.     *)
(***************************************************************************)
\* the available updates the cluster reports
LiveUpdateLists ==
    {<<>>, <<"4.16.1">>, <<"4.16.1", "4.16.5">>, <<"4.17.0">>,
     <<"4.16.5", "4.17.0">>}

LiveSubscriptions ==
    <<[name |-> "gitops", namespace |-> "openshift-operators",
       currentCSV |-> InstalledVersion, channel |-> "stable"],
      [name |-> "quay-operator", namespace |-> "quay-enterprise",
       currentCSV |-> InstalledVersion, channel |-> "stable"]>>

LiveChannels ==
    <<[name |-> "stable", currentCSV |-> "op.v1.2.3", deprecated |-> FALSE]>>

\* the objects of the cluster, with the first n subscriptions
LiveApi(updates, n) ==
    [clusterVersion |-> ClusterVersionObject(updates),
     subscriptions |-> SubSeq(LiveSubscriptions, 1, n),
     manifests |-> [gitops |-> LiveChannels, quay |-> LiveChannels]]

InitBuild ==
    /\ NoRequest
    /\ NoDetection
    /\ NoDuration
    /\ NoRepeat
    /\ EmptyCache
    /\ clusterApi \in {LiveApi(u, n) : u \in LiveUpdateLists,
                                        n \in 1..Len(LiveSubscriptions)}
    /\ turn = NoTurn
    /\ NoPage

\* the cluster learns of other available updates
ClusterUpdatesChange ==
    /\ pc \in {"start", "subscriptions", "operators"}
    /\ \E u \in LiveUpdateLists \ {clusterApi.clusterVersion.availableUpdates} :
           clusterApi' = [clusterApi EXCEPT !.clusterVersion.availableUpdates = u]
    /\ UNCHANGED turn
    /\ UNCHANGED <<requestVars, cacheVars>>
    /\ UNCHANGED outsideStatus

NextBuild ==
    \/ ClusterUpdatesChange
    \/ FetchClusterVersion
    \/ FailPlatformStatus
    \/ ListSubscriptions
    \/ ReadSubscription
    \/ LookupLifecycleInfo
    \/ ResumeLifecycleLookup
    \/ ReadChannels
    \/ DetectAvailableUpgrades
    \/ ResumeTargetLookup
    \/ ReadClusterVersionAgain
    \/ ReturnPlatformStatus

SpecBuild == InitBuild /\ [][NextBuild]_vars

(***************************************************************************)
(* OperatorDetailPage: the effect on [namespace, name] calls loadOperator, *)
(* which awaits apiClient.getOperatorStatus; nothing cancels or ignores a  *)
(* load that the next one has superseded.                                  *)
(***************************************************************************)
RouteChoices ==
    {[namespace |-> "openshift-operators", name |-> "gitops"],
     [namespace |-> "quay-enterprise", name |-> "quay-operator"]}

\* err.message of a rejected request; '' stands for an error without message
ErrorMessages == {"timeout of 30000ms exceeded", ""}

\* response.data of GET /api/v1/operators/${namespace}/${name}
OperatorData(params) ==
    [installation |-> [namespace |-> params.namespace, name |-> params.name]]

\* the error of the component is null or a string
ErrorText(message) == [message |-> message]

InitPage ==
    /\ NoRequest
    /\ NoDetection
    /\ NoDuration
    /\ NoRepeat
    /\ EmptyCache
    /\ NoBuild
    /\ NoPage

\* the page is mounted, or the route parameters change: the effect runs
\* loadOperator up to its await (setLoading(true); setError(null); the request)
Navigate(params) ==
    /\ requested < MaxLoads
    /\ params # routeParams
    /\ routeParams' = params
    /\ pageLoading' = TRUE
    /\ pageError' = Null
    /\ errorOf' = 0
    /\ requested' = requested + 1
    /\ inFlight' = inFlight \cup {[seq |-> requested + 1, params |-> params]}
    /\ UNCHANGED <<pageOperator, operatorOf>>
    /\ UNCHANGED outsidePage

\* the request resolves: setOperator(op), then finally setLoading(false)
Resolve(request) ==
    /\ request \in inFlight
    /\ inFlight' = inFlight \ {request}
    /\ pageOperator' = OperatorData(request.params)
    /\ operatorOf' = request.seq
    /\ pageLoading' = FALSE
    /\ UNCHANGED <<routeParams, pageError, requested, errorOf>>
    /\ UNCHANGED outsidePage

\* the request rejects: setError(err.message || 'Failed to load operator'),
\* then finally setLoading(false)
Reject(request, message) ==
    /\ request \in inFlight
    /\ inFlight' = inFlight \ {request}
    /\ pageError' = ErrorText(IF message = "" THEN "Failed to load operator"
                              ELSE message)
    /\ errorOf' = request.seq
    /\ pageLoading' = FALSE
    /\ UNCHANGED <<routeParams, pageOperator, requested, operatorOf>>
    /\ UNCHANGED outsidePage

NextPage ==
    \/ \E params \in RouteChoices : Navigate(params)
    \/ \E request \in inFlight : Resolve(request)
    \/ \E request \in inFlight, message \in ErrorMessages : Reject(request, message)

SpecPage == InitPage /\ [][NextPage]_vars

(***************************************************************************)
(* Properties.                                                             *)
(***************************************************************************)
\* generateUpgradePaths has returned the paths of the snapshot
Generated == pc \in {"windows", "done"}

\* the path of one strategy among the generated ones, or Null
PathNamed(id) == FindPath(paths, id)

\* the paths the four strategies return on a snapshot, each strategy run alone
\* (pc = "paths": the snapshot has been received and the strategies run next)
StrategyResults(ps) ==
    {generateCriticalIssuePath(ps), generateConservativePath(ps),
     generateAggressivePath(ps), generateBalancedPath(ps)} \ {Null, Throw}

HasUpgradeStep(path) ==
    \E k \in 1..Len(path.steps) : path.steps[k].type \in {"operator", "cluster"}

HasUpgrade(op) == Len(op.availableUpgrades) > 0

HasNoUpgrade(op) == Len(op.availableUpgrades) = 0

NoUpgradeAnywhere(ps) ==
    \A n \in 1..Len(ps.operators) : HasNoUpgrade(ps.operators[n])

C2_StepOrders ==
    pc = "paths" =>
        \A p \in StrategyResults(platformStatus) :
            /\ Len(p.steps) >= 1
            /\ p.steps[1].type = "verification"
            /\ \A k \in 1..Len(p.steps) : p.steps[k].order = k

\* a generated path of four steps: verification, two operators, the cluster
C2_Witness ==
    /\ pc = "done"
    /\ \E i \in 1..Len(paths) :
           /\ Len(paths[i].steps) = 4
           /\ paths[i].steps[4].type = "cluster"
           /\ paths[i].steps[4].order = 4

IsMajorJump(fromVersion, toVersion) ==
    /\ semverValid(cleanVersion(fromVersion))
    /\ semverValid(cleanVersion(toVersion))
    /\ semverDiff(cleanVersion(fromVersion), cleanVersion(toVersion)) = "major"

NoMajorStep(path) ==
    \A k \in 1..Len(path.steps) :
        path.steps[k].type = "operator"
            => ~IsMajorJump(path.steps[k].fromVersion, path.steps[k].toVersion)

(* C3: the conservative path never selects a major-magnitude upgrade: no  *)
(* operator step of it goes from the current version to a version of a    *)
(* higher major number.                                                   *)
C3_ConservativeNeverMajor ==
    Generated /\ PathNamed("conservative-path") # Null
        => NoMajorStep(PathNamed("conservative-path"))

\* the current version and every target of the operator can be compared
AllComparable(op) ==
    /\ semverValid(cleanVersion(op.installation.currentVersion))
    /\ \A i \in 1..Len(op.availableUpgrades) :
           semverValid(cleanVersion(op.availableUpgrades[i].targetVersion))

Magnitude(op, i) ==
    semverDiff(cleanVersion(op.installation.currentVersion),
               cleanVersion(op.availableUpgrades[i].targetVersion))

\* candidate i is the smallest upgrade of op: a patch jump when there is one,
\* else a minor jump when there is one, and the lowest of its magnitude
IsSmallest(op, i) ==
    /\ (\E j \in 1..Len(op.availableUpgrades) : Magnitude(op, j) = "patch")
           => Magnitude(op, i) = "patch"
    /\ ((\A j \in 1..Len(op.availableUpgrades) : Magnitude(op, j) # "patch")
        /\ (\E j \in 1..Len(op.availableUpgrades) : Magnitude(op, j) = "minor"))
           => Magnitude(op, i) = "minor"
    /\ \A j \in 1..Len(op.availableUpgrades) :
           Magnitude(op, j) = Magnitude(op, i)
               => ~semverLt(cleanVersion(op.availableUpgrades[j].targetVersion),
                            cleanVersion(op.availableUpgrades[i].targetVersion))

StepIsSmallest(path, op) ==
    \E k \in 1..Len(path.steps), i \in 1..Len(op.availableUpgrades) :
        /\ path.steps[k].type = "operator"
        /\ path.steps[k].target = op.installation.name
        /\ path.steps[k].fromVersion = op.installation.currentVersion
        /\ path.steps[k].toVersion = op.availableUpgrades[i].targetVersion
        /\ IsSmallest(op, i)

(* C4: for each warning-affected operator the conservative strategy picks *)
(* the smallest upgrade: a patch candidate when one exists, otherwise the *)
(* lowest minor candidate, and never a candidate when another of the same *)
(* magnitude has a lower target version (so the order of the list does    *)
(* not matter).                                                           *)
C4_ConservativeSmallest ==
    Generated =>
        \A n \in 1..Len(platformStatus.operators) :
            (/\ IsWarning(platformStatus.operators[n])
             /\ Len(platformStatus.operators[n].availableUpgrades) > 0
             /\ AllComparable(platformStatus.operators[n]))
                => /\ PathNamed("conservative-path") # Null
                   /\ StepIsSmallest(PathNamed("conservative-path"),
                                     platformStatus.operators[n])

\* an operator the balanced strategy upgrades
Qualifies(op) ==
    /\ Len(op.availableUpgrades) > 0
    /\ (Len(op.issues) > 0 \/ isSignificantlyOutdated(op))

NoneQualifies(ps) ==
    \A n \in 1..Len(ps.operators) : ~Qualifies(ps.operators[n])

(* C5: the balanced strategy returns no path whenever no operator         *)
(* qualifies, also when the cluster has available updates.                *)
C5_NoQualifierNoPath ==
    (Generated /\ NoneQualifies(platformStatus))
        => PathNamed("balanced-path") = Null

\* the reads of subscription i answered and the channels of its package list
\* a head that is no version
ListsUnparsedHead(inv, i) ==
    /\ inv.subscriptions[i].lookup = "ok"
    /\ inv.subscriptions[i].manifest.status = "ok"
    /\ inv.subscriptions[i].clusterVersion \notin {NotRead, Throw}
    /\ \E k \in 1..Len(inv.subscriptions[i].manifest.channels) :
           ~semverValid(cleanVersion(
               inv.subscriptions[i].manifest.channels[k].currentCSV))

(* C6: path generation never raises on malformed version strings: once    *)
(* getPlatformStatus has returned the snapshot, generateUpgradePaths      *)
(* returns on it and getUpgradeRecommendations does not fail with         *)
(* 'Failed to generate upgrade recommendations'.                          *)
C6_NeverFails ==
    /\ pc = "failed" => platformStatus = Null
    /\ pc = "paths" => generateUpgradePaths(platformStatus) # Throw

\* a package with two channels, the head of one a newer version and the head
\* of the other no version: the operator is in the snapshot with the one
\* upgrade and the bundle is returned with its paths
C6_Witness ==
    /\ pc = "done"
    /\ Len(inventory.subscriptions) = 1
    /\ ListsUnparsedHead(inventory, 1)
    /\ Len(inventory.subscriptions[1].manifest.channels) = 2
    /\ Len(platformStatus.operators) = 1
    /\ Len(platformStatus.operators[1].availableUpgrades) = 1
    /\ Len(paths) >= 1

StepsComparable(path) ==
    \A k \in 1..Len(path.steps) :
        path.steps[k].type = "operator"
            => /\ semverValid(cleanVersion(path.steps[k].fromVersion))
               /\ semverValid(cleanVersion(path.steps[k].toVersion))

(* C7: an incomparable version pair never yields a recommendation: every  *)
(* available upgrade of a returned snapshot is from a current version to  *)
(* a target version that both normalize to N.N.N, and so is every         *)
(* operator step of a generated path.                                     *)
C7_NoStepFromIncomparablePair ==
    /\ platformStatus # Null =>
           \A n \in 1..Len(platformStatus.operators) :
               HasUpgrade(platformStatus.operators[n])
                   => AllComparable(platformStatus.operators[n])
    /\ \A i \in 1..Len(paths) : StepsComparable(paths[i])

\* an operator whose installed version is unknown, on a package whose channel
\* has a version as its head: the operator is in the snapshot without an
\* upgrade and no path is generated for it
C7_Witness ==
    /\ pc = "done"
    /\ Len(platformStatus.operators) = 1
    /\ platformStatus.operators[1].installation.currentVersion = UnknownVersion
    /\ inventory.subscriptions[1].manifest.channels # <<>>
    /\ \A k \in 1..Len(inventory.subscriptions[1].manifest.channels) :
           semverValid(cleanVersion(
               inventory.subscriptions[1].manifest.channels[k].currentCSV))
    /\ HasNoUpgrade(platformStatus.operators[1])
    /\ platformStatus.cluster.availableUpdates = <<>>
    /\ paths = <<>>

LifecycleWindowIndexes ==
    {i \in 1..Len(windows) : windows[i].id = "lifecycle-maintenance"}

LifecycleWindowDue ==
    /\ platformStatus.supportExpiresIn # Undefined
    /\ platformStatus.supportExpiresIn[1] < 90
    /\ PathNamed("aggressive-path") # Null

Planned == firstPaths \notin {NoCall, Throw}

\* generateMaintenanceWindows has returned the windows of those paths
Scheduled == repeatWindows # NoCall

\* the path of one strategy among the paths of the first call, or Null
PlannedPath(id) == FindPath(firstPaths.returned, id)

ScheduledIds ==
    [i \in 1..Len(repeatWindows.returned) |-> repeatWindows.returned[i].id]

ScenarioD ==
    /\ Scheduled
    /\ repeatStatus.supportExpiresIn = Some(45)
    /\ PlannedPath("aggressive-path") # Null

C9_WitnessRegular ==
    /\ ScenarioD
    /\ repeatStatus.criticalIssues = 0
    /\ PlannedPath("balanced-path") # Null
    /\ ScheduledIds = <<"regular-maintenance", "lifecycle-maintenance">>

(* C10: issue ids are unique per component and rule: two issues of the    *)
(* operator statuses of one snapshot carry the same id only if they are   *)
(* of the same component (name and namespace) and of the same rule.       *)
C10_IssueIdsUnique ==
    \A i, j \in 1..Len(operators) :
        \A a \in 1..Len(operators[i].issues), b \in 1..Len(operators[j].issues) :
            operators[i].issues[a].id = operators[j].issues[b].id
                => /\ operators[i].installation.name
                          = operators[j].installation.name
                   /\ operators[i].installation.namespace
                          = operators[j].installation.namespace
                   /\ operators[i].issues[a].type = operators[j].issues[b].type
                   /\ operators[i].issues[a].severity
                          = operators[j].issues[b].severity

\* getPlatformStatus has returned the snapshot of the inventory
Returned == inventory # NoInventory /\ pc \in {"paths", "windows", "done"}

\* a read of subscription i of the inventory, or of its package manifest, did
\* not answer with the object
FetchFailed(inv, i) ==
    \/ inv.subscriptions[i].lookup # "ok"
    \/ inv.subscriptions[i].manifest.status # "ok"

IsPresent(ops, sub) ==
    \E n \in 1..Len(ops) :
        /\ ops[n].installation.name = sub.name
        /\ ops[n].installation.namespace = sub.namespace

(* C11: an operator whose subscription read fails or answers not-found,   *)
(* or whose package manifest read fails or answers not-found, does not    *)
(* appear in the operators of the returned snapshot.                      *)
C11_FailedFetchDropsOperator ==
    Returned =>
        \A i \in 1..Len(inventory.subscriptions) :
            FetchFailed(inventory, i)
                => ~IsPresent(platformStatus.operators,
                              inventory.subscriptions[i])

\* every read of subscription i was made and answered: the subscription with
\* the object, the package manifest with the object or 404, the cluster
\* version inside detectUpgradeIssues with the object
NoReadThrew(inv, i) ==
    /\ inv.subscriptions[i].lookup = "ok"
    /\ inv.subscriptions[i].manifest.status \in {"ok", "not-found"}
    /\ inv.subscriptions[i].clusterVersion # NotRead
    /\ inv.subscriptions[i].clusterVersion # Throw

\* the status of subscription i computed from its own reads alone
OwnStatus(inv, i) ==
    StatusOf(mapSubscriptionToInstallation(inv.subscriptions[i]),
             inv.subscriptions[i].lifecycleInfo,
             inv.subscriptions[i].manifest.channels,
             detectAvailableUpgrades(
                 mapSubscriptionToInstallation(inv.subscriptions[i]),
                 inv.subscriptions[i].manifest.channels),
             inv.subscriptions[i].clusterVersion.returned.availableUpdates)

RECURSIVE OwnStatusesFrom(_, _)
OwnStatusesFrom(inv, i) ==
    IF i > Len(inv.subscriptions) THEN <<>>
    ELSE (IF NoReadThrew(inv, i) THEN <<OwnStatus(inv, i)>> ELSE <<>>)
         \o OwnStatusesFrom(inv, i + 1)

(* C12: once the cluster version and the subscription list are read,      *)
(* getPlatformStatus returns a snapshot whatever per-operator reads fail: *)
(* its operators are, in subscription order, the statuses of exactly the  *)
(* subscriptions whose own reads succeed, each computed from its own      *)
(* reads, and the method fails only when the first two reads fail.        *)
C12_BestEffortSnapshot ==
    /\ (pc = "failed" /\ platformStatus = Null) => cursor = 0
    /\ Returned => platformStatus.operators = OwnStatusesFrom(inventory, 1)
    /\ (pc = "operators" /\ cursor > Len(inventory.subscriptions))
           => operators = OwnStatusesFrom(inventory, 1)

\* the first of two subscriptions could not be read, the second is in the
\* returned snapshot with its own status
C12_Witness ==
    /\ Returned
    /\ Len(inventory.subscriptions) = 2
    /\ inventory.subscriptions[1].lookup = "error"
    /\ NoReadThrew(inventory, 2)
    /\ platformStatus.operators = <<OwnStatus(inventory, 2)>>
    /\ Len(OwnStatus(inventory, 2).issues) > 0

\* the cluster version read of the first of two subscriptions rejected inside
\* detectUpgradeIssues: the first is dropped, the second is in the snapshot
C12_WitnessReread ==
    /\ Returned
    /\ Len(inventory.subscriptions) = 2
    /\ inventory.subscriptions[1].lookup = "ok"
    /\ inventory.subscriptions[1].manifest.status = "ok"
    /\ inventory.subscriptions[1].clusterVersion = Throw
    /\ NoReadThrew(inventory, 2)
    /\ platformStatus.operators = <<OwnStatus(inventory, 2)>>

IsOperatorStep(s) == s.type = "operator"

\* the operator steps of a path, in list order
OperatorSteps(path) == SelectSeq(path.steps, IsOperatorStep)

HasCriticalUpgrade(op) == IsCritical(op) /\ Len(op.availableUpgrades) > 0

\* the operator steps are, one for one and in order, the first upgrades of ops
StepsToFirstUpgrade(steps, ops) ==
    /\ Len(steps) = Len(ops)
    /\ \A n \in 1..Len(ops) :
           /\ steps[n].target = ops[n].installation.name
           /\ steps[n].fromVersion = ops[n].installation.currentVersion
           /\ steps[n].toVersion = ops[n].availableUpgrades[1].targetVersion
           /\ steps[n].channel = ops[n].availableUpgrades[1].channel

\* no operator step comes after a cluster step
OperatorsBeforeCluster(path) ==
    \A j, k \in 1..Len(path.steps) :
        path.steps[j].type = "operator" /\ path.steps[k].type = "cluster"
            => j < k

CriticalStepsOf(path, ops) ==
    /\ path # Null
    /\ StepsToFirstUpgrade(OperatorSteps(path), ops)
    /\ OperatorsBeforeCluster(path)

(* C13: the critical path generateUpgradePaths returns has exactly one    *)
(* operator step for every operator with a critical issue and an          *)
(* available upgrade, to the version and channel of its first listed      *)
(* upgrade; these steps are in snapshot order and come before the cluster *)
(* step.                                                                  *)
C13_CriticalPathSteps ==
    (Planned /\ \E n \in 1..Len(repeatStatus.operators) :
                    HasCriticalUpgrade(repeatStatus.operators[n]))
        => CriticalStepsOf(PlannedPath("critical-issues-path"),
               SelectSeq(repeatStatus.operators, HasCriticalUpgrade))

\* Scenario B: an operator with a critical issue and an upgrade to 2.0.0,
\* cluster updates 4.16.1 and 4.16.5: verification, the operator to 2.0.0, the
\* cluster to 4.16.1
C13_Witness ==
    /\ Planned
    /\ repeatStatus.cluster.availableUpdates = <<"4.16.1", "4.16.5">>
    /\ Len(repeatStatus.operators) = 1
    /\ HasCriticalUpgrade(repeatStatus.operators[1])
    /\ PlannedPath("critical-issues-path") # Null
    /\ Len(PlannedPath("critical-issues-path").steps) = 3
    /\ PlannedPath("critical-issues-path").steps[2].type = "operator"
    /\ PlannedPath("critical-issues-path").steps[2].toVersion = "2.0.0"
    /\ PlannedPath("critical-issues-path").steps[3].type = "cluster"
    /\ PlannedPath("critical-issues-path").steps[3].toVersion = "4.16.1"

\* two operators with a critical issue and two upgrades each: two operator
\* steps in snapshot order, each to the first listed upgrade
C13_WitnessTwo ==
    /\ Planned
    /\ Len(repeatStatus.operators) = 2
    /\ HasCriticalUpgrade(repeatStatus.operators[1])
    /\ HasCriticalUpgrade(repeatStatus.operators[2])
    /\ PlannedPath("critical-issues-path") # Null
    /\ Len(OperatorSteps(PlannedPath("critical-issues-path"))) = 2

IsClusterStep(s) == s.type = "cluster"

\* the cluster steps of a path, in list order
ClusterSteps(path) == SelectSeq(path.steps, IsClusterStep)

\* the path has a cluster step exactly when the cluster has updates; it is the
\* last step of the path and goes from the current version to toVersion
ClusterStepOf(path, cluster, toVersion) ==
    IF Len(cluster.availableUpdates) = 0 THEN ClusterSteps(path) = <<>>
    ELSE /\ Len(ClusterSteps(path)) = 1
         /\ path.steps[Len(path.steps)].type = "cluster"
         /\ path.steps[Len(path.steps)].fromVersion = cluster.currentVersion
         /\ path.steps[Len(path.steps)].toVersion = toVersion

\* a strategy returned no path, or a path whose cluster step is as required
ClusterStepIn(result, cluster, toVersion) ==
    result \notin {Null, Throw} => ClusterStepOf(result, cluster, toVersion)

FirstUpdate(cluster) ==
    IF Len(cluster.availableUpdates) = 0 THEN NoValue
    ELSE cluster.availableUpdates[1]

LastUpdate(cluster) ==
    IF Len(cluster.availableUpdates) = 0 THEN NoValue
    ELSE cluster.availableUpdates[Len(cluster.availableUpdates)]

(* C14: the critical, aggressive and balanced paths, when returned, have  *)
(* a cluster step exactly when the cluster has available updates; it is   *)
(* the last step of the path; it goes to the last available update in the *)
(* aggressive path and to the first one in the critical and balanced      *)
(* paths.                                                                 *)
C14_ClusterStepTarget ==
    /\ pc = "paths" =>
           ClusterStepIn(generateCriticalIssuePath(platformStatus),
                         platformStatus.cluster,
                         FirstUpdate(platformStatus.cluster))
    /\ Generated =>
           /\ ClusterStepIn(PathNamed("critical-issues-path"),
                            platformStatus.cluster,
                            FirstUpdate(platformStatus.cluster))
           /\ ClusterStepIn(PathNamed("aggressive-path"),
                            platformStatus.cluster,
                            LastUpdate(platformStatus.cluster))
           /\ ClusterStepIn(PathNamed("balanced-path"),
                            platformStatus.cluster,
                            FirstUpdate(platformStatus.cluster))

LastStep(path) == path.steps[Len(path.steps)]

\* updates 4.16.1 and 4.16.5 and an operator a minor number behind: the
\* aggressive path ends with the cluster to 4.16.5 and the balanced path with
\* the cluster to 4.16.1, each after an operator step
C14_Witness ==
    /\ pc = "done"
    /\ platformStatus.cluster.availableUpdates = <<"4.16.1", "4.16.5">>
    /\ PathNamed("aggressive-path") # Null
    /\ PathNamed("balanced-path") # Null
    /\ Len(PathNamed("aggressive-path").steps) = 3
    /\ Len(PathNamed("balanced-path").steps) = 3
    /\ LastStep(PathNamed("aggressive-path")).toVersion = "4.16.5"
    /\ LastStep(PathNamed("balanced-path")).toVersion = "4.16.1"

\* the step goes to a listed candidate of op, on that candidate's channel
IsCandidateStep(step, op) ==
    \E j \in 1..Len(op.availableUpgrades) :
        /\ step.toVersion = op.availableUpgrades[j].targetVersion
        /\ step.channel = op.availableUpgrades[j].channel

\* the path has no more operator steps than ops has operators with an upgrade,
\* and each of them is the step of such an operator: from its installed
\* version to one of its candidates
StepsOnlyWithUpgrade(path, ops) ==
    /\ Len(OperatorSteps(path)) <= Len(SelectSeq(ops, HasUpgrade))
    /\ \A k \in 1..Len(path.steps) :
           path.steps[k].type = "operator"
               => \E n \in 1..Len(ops) :
                      /\ HasUpgrade(ops[n])
                      /\ path.steps[k].target = ops[n].installation.name
                      /\ path.steps[k].fromVersion
                             = ops[n].installation.currentVersion
                      /\ IsCandidateStep(path.steps[k], ops[n])

\* the issues of the operator that report a deprecated channel
StaleChannelIssues(op) ==
    SelectSeq(op.issues, LAMBDA i : i.type = "stale-channel")

(* C15: no strategy returns a path with an operator step for an operator  *)
(* whose availableUpgrades is empty, whatever issues the operator has:    *)
(* the operator steps of a path are steps of operators with an upgrade,   *)
(* at most one for each.  An operator on a deprecated current channel     *)
(* carries exactly one stale-channel issue, of severity warning, in the   *)
(* status the planner works on, with or without an upgrade.               *)
C15_NoStepWithoutUpgrade ==
    /\ pc = "paths" =>
           \A p \in StrategyResults(platformStatus) :
               StepsOnlyWithUpgrade(p, platformStatus.operators)
    /\ Generated =>
           \A i \in 1..Len(paths) :
               StepsOnlyWithUpgrade(paths[i], platformStatus.operators)
    /\ platformStatus # Null =>
           \A n \in 1..Len(platformStatus.operators) :
               /\ Len(StaleChannelIssues(platformStatus.operators[n])) =
                      (IF platformStatus.operators[n].currentChannel.deprecated
                       THEN 1 ELSE 0)
               /\ \A k \in 1..Len(StaleChannelIssues(
                                       platformStatus.operators[n])) :
                      StaleChannelIssues(platformStatus.operators[n])[k]
                          = StaleChannelIssue(
                                platformStatus.operators[n].installation.name)

\* Scenario C: an operator on a deprecated channel without an upgrade next to
\* an operator with an upgrade: the paths hold the step of the second only, and
\* the snapshot reports the stale-channel warning of the first
C15_Witness ==
    /\ pc = "done"
    /\ Len(platformStatus.operators) = 2
    /\ HasNoUpgrade(platformStatus.operators[1])
    /\ platformStatus.operators[1].currentChannel.deprecated
    /\ platformStatus.operators[1].issues
           = <<StaleChannelIssue(platformStatus.operators[1].installation.name)>>
    /\ platformStatus.operators[1].healthStatus = "warning"
    /\ HasUpgrade(platformStatus.operators[2])
    /\ Len(paths) >= 2
    /\ \A i \in 1..Len(paths) :
           /\ Len(OperatorSteps(paths[i])) = 1
           /\ OperatorSteps(paths[i])[1].target
                  = platformStatus.operators[2].installation.name

\* two subscriptions of one package in two namespaces, one of them without a
\* known installed version: one operator step, of the operator with the upgrade
C15_WitnessSameName ==
    /\ pc = "done"
    /\ Len(platformStatus.operators) = 2
    /\ platformStatus.operators[1].installation.name
           = platformStatus.operators[2].installation.name
    /\ HasUpgrade(platformStatus.operators[1])
    /\ HasNoUpgrade(platformStatus.operators[2])
    /\ PathNamed("aggressive-path") # Null
    /\ Len(OperatorSteps(PathNamed("aggressive-path"))) = 1
    /\ OperatorSteps(PathNamed("aggressive-path"))[1].fromVersion
           = platformStatus.operators[1].installation.currentVersion

\* no listed candidate of op has a strictly higher cleaned version than version
IsHighest(op, version) ==
    \A j \in 1..Len(op.availableUpgrades) :
        ~semverGt(cleanVersion(op.availableUpgrades[j].targetVersion),
                  cleanVersion(version))

\* the operator steps are, one for one and in order, the highest upgrades of ops
StepsToHighestUpgrade(steps, ops) ==
    /\ Len(steps) = Len(ops)
    /\ \A n \in 1..Len(ops) :
           /\ steps[n].target = ops[n].installation.name
           /\ steps[n].fromVersion = ops[n].installation.currentVersion
           /\ IsCandidateStep(steps[n], ops[n])
           /\ IsHighest(ops[n], steps[n].toVersion)

AggressiveStepsOf(path, ops) ==
    Len(ops) > 0
        => /\ path \notin {Null, Throw}
           /\ StepsToHighestUpgrade(OperatorSteps(path), ops)

(* C16: the aggressive path has exactly one operator step for every       *)
(* operator with an available upgrade, in snapshot order, to a listed     *)
(* candidate than which no listed candidate has a strictly higher cleaned *)
(* version, wherever it stands in the list.                               *)
C16_AggressiveHighest ==
    /\ pc = "paths" =>
           AggressiveStepsOf(generateAggressivePath(platformStatus),
                             SelectSeq(platformStatus.operators, HasUpgrade))
    /\ Generated =>
           AggressiveStepsOf(PathNamed("aggressive-path"),
                             SelectSeq(platformStatus.operators, HasUpgrade))

\* the highest candidate listed first, before a lower one: the aggressive step
\* goes to the first entry
C16_Witness ==
    /\ pc = "done"
    /\ Len(platformStatus.operators) = 1
    /\ Len(platformStatus.operators[1].availableUpgrades) = 2
    /\ platformStatus.operators[1].availableUpgrades[1].targetVersion = "op.v1.4.0"
    /\ platformStatus.operators[1].availableUpgrades[2].targetVersion = "op.v1.2.5"
    /\ PathNamed("aggressive-path") # Null
    /\ Len(OperatorSteps(PathNamed("aggressive-path"))) = 1
    /\ OperatorSteps(PathNamed("aggressive-path"))[1].toVersion = "op.v1.4.0"

(* C17: the aggressive strategy returns no path (null) if and only if no  *)
(* operator has an available upgrade and the cluster has no available     *)
(* update.                                                                *)
C17_AggressiveAbsentIff ==
    /\ pc = "paths" =>
           (generateAggressivePath(platformStatus) = Null
               <=> (/\ NoUpgradeAnywhere(platformStatus)
                    /\ Len(platformStatus.cluster.availableUpdates) = 0))
    /\ Generated =>
           (PathNamed("aggressive-path") = Null
               <=> (/\ NoUpgradeAnywhere(platformStatus)
                    /\ Len(platformStatus.cluster.availableUpdates) = 0))

\* Scenario A: one operator without issues at 1.2.0 with the one upgrade
\* 1.2.5 on channel stable and no cluster update: no critical path, no
\* conservative path, an aggressive path with the step 1.2.0 -> 1.2.5
C17_Witness ==
    /\ pc = "done"
    /\ Len(platformStatus.operators) = 1
    /\ platformStatus.operators[1].issues = <<>>
    /\ platformStatus.operators[1].installation.currentVersion = InstalledVersion
    /\ Len(platformStatus.operators[1].availableUpgrades) = 1
    /\ platformStatus.cluster.availableUpdates = <<>>
    /\ PathNamed("critical-issues-path") = Null
    /\ PathNamed("conservative-path") = Null
    /\ PathNamed("aggressive-path") # Null
    /\ Len(PathNamed("aggressive-path").steps) = 2
    /\ PathNamed("aggressive-path").steps[2].fromVersion = InstalledVersion
    /\ PathNamed("aggressive-path").steps[2].toVersion = "op.v1.2.5"
    /\ PathNamed("aggressive-path").steps[2].channel = "stable"

\* no operator has an upgrade and the cluster has no update: no aggressive path
C17_WitnessAbsent ==
    /\ pc = "done"
    /\ Len(platformStatus.operators) = 2
    /\ NoUpgradeAnywhere(platformStatus)
    /\ platformStatus.cluster.availableUpdates = <<>>
    /\ PathNamed("aggressive-path") = Null

\* the operator has an issue of severity warning
WarningAffected(op) ==
    \E i \in 1..Len(op.issues) : op.issues[i].severity = "warning"

\* every operator step of the path is for a warning-affected operator of ops,
\* from its current version to one of its candidates
StepsOfWarningAffected(path, ops) ==
    \A k \in 1..Len(path.steps) :
        path.steps[k].type = "operator"
            => \E n \in 1..Len(ops) :
                   /\ WarningAffected(ops[n])
                   /\ path.steps[k].target = ops[n].installation.name
                   /\ path.steps[k].fromVersion = ops[n].installation.currentVersion
                   /\ IsCandidateStep(path.steps[k], ops[n])

ConservativeShape(result, ops) ==
    /\ result \notin {Null, Throw}
           => /\ ClusterSteps(result) = <<>>
              /\ StepsOfWarningAffected(result, ops)
              /\ Len(OperatorSteps(result))
                     <= Len(SelectSeq(ops, WarningAffected))
    /\ (\A n \in 1..Len(ops) : ~WarningAffected(ops[n])) => result = Null

(* C18: the conservative path holds no cluster step, each of its operator *)
(* steps is for an operator with at least one warning issue, and the      *)
(* strategy returns no path when no operator has a warning issue.         *)
C18_ConservativeShape ==
    /\ pc = "paths" =>
           ConservativeShape(generateConservativePath(platformStatus),
                             platformStatus.operators)
    /\ Generated =>
           ConservativeShape(PathNamed("conservative-path"),
                             platformStatus.operators)

\* cluster updates available, an operator without issues and a
\* warning-affected one, both with an upgrade: the conservative path is
\* verification and the step of the warning-affected operator
C18_Witness ==
    /\ pc = "done"
    /\ Len(platformStatus.cluster.availableUpdates) > 0
    /\ Len(platformStatus.operators) = 2
    /\ platformStatus.operators[1].issues = <<>>
    /\ HasUpgrade(platformStatus.operators[1])
    /\ WarningAffected(platformStatus.operators[2])
    /\ platformStatus.operators[1].installation.name
           # platformStatus.operators[2].installation.name
    /\ PathNamed("conservative-path") # Null
    /\ Len(PathNamed("conservative-path").steps) = 2
    /\ PathNamed("conservative-path").steps[2].type = "operator"
    /\ PathNamed("conservative-path").steps[2].target
           = platformStatus.operators[2].installation.name

\* candidate i of op has the highest version of the list
IsFurthest(op, i) ==
    /\ semverValid(cleanVersion(op.availableUpgrades[i].targetVersion))
    /\ IsHighest(op, op.availableUpgrades[i].targetVersion)

\* the current version differs from the highest-version candidate by a minor
\* or a major number
OutdatedByFurthest(op) ==
    \E i \in 1..Len(op.availableUpgrades) :
        /\ IsFurthest(op, i)
        /\ semverValid(cleanVersion(op.installation.currentVersion))
        /\ semverDiff(cleanVersion(op.installation.currentVersion),
                      cleanVersion(op.availableUpgrades[i].targetVersion))
               \in {"minor", "major"}

QualifiesByFurthest(op) ==
    /\ Len(op.availableUpgrades) > 0
    /\ (Len(op.issues) > 0 \/ OutdatedByFurthest(op))

\* the path has an operator step of this operator
HasStepOf(result, op) ==
    /\ result # Null
    /\ \E k \in 1..Len(result.steps) :
           /\ result.steps[k].type = "operator"
           /\ result.steps[k].target = op.installation.name
           /\ result.steps[k].fromVersion = op.installation.currentVersion

(* C19: the balanced path has an operator step for an operator exactly    *)
(* when the operator has an available upgrade and either has an issue or  *)
(* differs from its highest-version available upgrade by a minor or major *)
(* number.                                                                *)
C19_BalancedQualifiesByFurthest ==
    Generated =>
        \A n \in 1..Len(platformStatus.operators) :
            HasStepOf(PathNamed("balanced-path"), platformStatus.operators[n])
                <=> QualifiesByFurthest(platformStatus.operators[n])

\* positions of the candidates on a channel named stable or recommended
StablePositions(upgrades) ==
    {i \in 1..Len(upgrades) :
         \/ Includes(upgrades[i].channel, "stable")
         \/ Includes(upgrades[i].channel, "recommended")}

Max(S) == CHOOSE x \in S : \A y \in S : y <= x

\* the last listed stable or recommended candidate, else the candidate at
\* position floor(n / 2) counted from 0
BalancedCandidate(upgrades) ==
    IF StablePositions(upgrades) # {}
    THEN upgrades[Max(StablePositions(upgrades))]
    ELSE upgrades[(Len(upgrades) \div 2) + 1]

\* the operator steps are, one for one and in order, the balanced candidates
\* of ops
StepsToBalancedCandidate(steps, ops) ==
    /\ Len(steps) = Len(ops)
    /\ \A n \in 1..Len(ops) :
           /\ steps[n].target = ops[n].installation.name
           /\ steps[n].fromVersion = ops[n].installation.currentVersion
           /\ steps[n].toVersion
                  = BalancedCandidate(ops[n].availableUpgrades).targetVersion
           /\ steps[n].channel
                  = BalancedCandidate(ops[n].availableUpgrades).channel

BalancedStepsOf(path, ops) ==
    Len(ops) > 0
        => /\ path # Null
           /\ StepsToBalancedCandidate(OperatorSteps(path), ops)

C20_WitnessMiddle ==
    /\ pc = "done"
    /\ Len(platformStatus.operators) = 1
    /\ Len(platformStatus.operators[1].availableUpgrades) = 2
    /\ StablePositions(platformStatus.operators[1].availableUpgrades) = {}
    /\ PathNamed("balanced-path") # Null
    /\ Len(OperatorSteps(PathNamed("balanced-path"))) = 1
    /\ OperatorSteps(PathNamed("balanced-path"))[1].toVersion
           = platformStatus.operators[1].availableUpgrades[2].targetVersion

WindowsNamed(id) ==
    SelectSeq(windows, LAMBDA w : w.id = id)

RECURSIVE UpgradeTargets(_)
\* the targets of the steps other than verification steps, in step order
UpgradeTargets(steps) ==
    IF steps = <<>> THEN <<>>
    ELSE (IF Head(steps).type = "verification" THEN <<>>
          ELSE <<Head(steps).target>>)
         \o UpgradeTargets(Tail(steps))

\* the window is built from the path: its upgrade path and its components
BuiltFrom(w, path) ==
    /\ path # Null
    /\ w.upgradePath = path
    /\ w.affectedComponents = UpgradeTargets(path.steps)

C22_RegularWindowRule ==
    pc = "done" =>
        /\ Len(WindowsNamed("regular-maintenance")) =
               (IF PathNamed("balanced-path") # Null THEN 1 ELSE 0)
        /\ \A i \in 1..Len(windows) :
               windows[i].id = "regular-maintenance"
                   => /\ windows[i].daysFromNow = 30
                      /\ BuiltFrom(windows[i], PathNamed("balanced-path"))
                      /\ windows[i].priority =
                             (IF platformStatus.criticalIssues > 0
                              THEN "high" ELSE "medium")

\* no critical issue and a balanced path of two operator steps and the
\* cluster step: the regular window has priority medium and lists the three
\* targets
C22_Witness ==
    /\ pc = "done"
    /\ platformStatus.criticalIssues = 0
    /\ PathNamed("balanced-path") # Null
    /\ Len(windows) = 1
    /\ windows[1].id = "regular-maintenance"
    /\ windows[1].priority = "medium"
    /\ windows[1].daysFromNow = 30
    /\ Len(windows[1].affectedComponents) = 3

\* no balanced path while an aggressive path exists: no regular window
C22_WitnessAbsent ==
    /\ pc = "done"
    /\ PathNamed("aggressive-path") # Null
    /\ PathNamed("balanced-path") = Null
    /\ windows = <<>>

\* position of a window id in the order of the three rules, 0 for any other id
WindowRank(id) ==
    IF id = "immediate-window" THEN 1
    ELSE IF id = "regular-maintenance" THEN 2
    ELSE IF id = "lifecycle-maintenance" THEN 3
    ELSE 0

(* C23: generateMaintenanceWindows returns its windows in the order       *)
(* immediate-window, regular-maintenance, lifecycle-maintenance whatever  *)
(* their dates: the ids of every output are a subsequence of that order,  *)
(* so there are at most three windows with distinct ids, and the path of  *)
(* each window is one of the paths it was called with.                    *)
C23_WindowOrder ==
    Scheduled =>
        /\ Len(repeatWindows.returned) <= 3
        /\ \A i \in 1..Len(repeatWindows.returned) :
               /\ WindowRank(repeatWindows.returned[i].id) > 0
               /\ \E k \in 1..Len(firstPaths.returned) :
                      repeatWindows.returned[i].upgradePath
                          = firstPaths.returned[k]
        /\ \A i, j \in 1..Len(repeatWindows.returned) :
               i < j => WindowRank(repeatWindows.returned[i].id)
                            < WindowRank(repeatWindows.returned[j].id)

\* the three windows together: the window dated 30 days from now stands
\* before the one dated 14 days from now
C23_Witness ==
    /\ Scheduled
    /\ Len(repeatWindows.returned) = 3
    /\ repeatWindows.returned[1].id = "immediate-window"
    /\ repeatWindows.returned[2].id = "regular-maintenance"
    /\ repeatWindows.returned[2].daysFromNow = 30
    /\ repeatWindows.returned[3].id = "lifecycle-maintenance"
    /\ repeatWindows.returned[3].daysFromNow = 14

\* detectUpgradeIssues has returned its issues: the cluster version read inside
\* it answered
IsDetected == "healthStatus" \in DOMAIN detected

\* status.availableUpdates of the answer of that read
UpdatesRead == detectArgs.clusterVersion.returned.availableUpdates

\* the issues of the given type among the detected ones, in list order
IssuesOfType(type) ==
    SelectSeq(detected.issues, LAMBDA i : i.type = type)

\* the first available update and the ceiling are both versions and the
\* first available update is the higher one
FirstUpdateAbove(maxOCPVersion, availableUpdates) ==
    /\ maxOCPVersion # NoValue
    /\ availableUpdates # <<>>
    /\ semverValid(Chars(maxOCPVersion))
    /\ semverValid(Chars(Head(availableUpdates)))
    /\ CompareMain(semverParse(Chars(Head(availableUpdates))),
                   semverParse(Chars(maxOCPVersion))) = 1

(* C24: detectUpgradeIssues returns a version-ceiling issue, critical and *)
(* blocking the cluster upgrade, exactly when maxOCPVersion and the first *)
(* available update of the cluster are both valid versions and that first *)
(* update is strictly greater; later entries are never looked at, and no  *)
(* such issue is returned when maxOCPVersion is missing, the list is      *)
(* empty or either side is no valid version.                              *)
C24_VersionCeilingRule ==
    IsDetected =>
        /\ Len(IssuesOfType("version-ceiling")) =
               (IF FirstUpdateAbove(detectArgs.lifecycleInfo.maxOCPVersion,
                                    UpdatesRead)
                THEN 1 ELSE 0)
        /\ \A i \in 1..Len(detected.issues) :
               detected.issues[i].type = "version-ceiling"
                   => /\ detected.issues[i].severity = "critical"
                      /\ detected.issues[i].affectsClusterUpgrade

\* ceiling 4.16.3, updates 4.16.1 then 4.17.0: the later entry is above the
\* ceiling and no version-ceiling issue is returned
C24_Witness ==
    /\ IsDetected
    /\ detectArgs.lifecycleInfo.maxOCPVersion = "4.16.3"
    /\ UpdatesRead = <<"4.16.1", "4.17.0">>
    /\ IssuesOfType("version-ceiling") = <<>>

\* ceiling 4.16.3, updates 4.17.0 then 4.16.1: the issue is returned
C24_WitnessAbove ==
    /\ IsDetected
    /\ detectArgs.lifecycleInfo.maxOCPVersion = "4.16.3"
    /\ UpdatesRead = <<"4.17.0", "4.16.1">>
    /\ Len(IssuesOfType("version-ceiling")) = 1
    /\ detected.healthStatus = "critical"

\* the detected issues of the given type and severity, in list order
IssuesOf(type, severity) ==
    SelectSeq(detected.issues,
              LAMBDA i : i.type = type /\ i.severity = severity)

\* critical if any issue is critical, else warning if any is warning, else
\* healthy
HealthOf(issues) ==
    IF \E i \in 1..Len(issues) : issues[i].severity = "critical"
    THEN "critical"
    ELSE IF \E i \in 1..Len(issues) : issues[i].severity = "warning"
    THEN "warning"
    ELSE "healthy"

OneIf(condition) == IF condition THEN 1 ELSE 0

\* full-support and no maxOCPVersion, as the defaults are
IsDefaultInfo(info) ==
    info = getDefaultLifecycleInfo(info.operatorName, info.version)

(* C25: detectUpgradeIssues returns a warning stale-channel issue exactly *)
(* when the current channel is deprecated, a warning lifecycle-expiring   *)
(* issue exactly when the phase is maintenance-support, a critical        *)
(* lifecycle-expiring issue that blocks the cluster upgrade exactly when  *)
(* the phase is end-of-life; the default lifecycle info gives no          *)
(* lifecycle-expiring and no version-ceiling issue; the health status is  *)
(* critical if an issue is critical, else warning if one is warning, else *)
(* healthy.                                                               *)
C25_DetectionRules ==
    IsDetected =>
        /\ Len(IssuesOfType("stale-channel"))
               = OneIf(detectArgs.currentChannel.deprecated)
        /\ Len(IssuesOf("stale-channel", "warning"))
               = Len(IssuesOfType("stale-channel"))
        /\ Len(IssuesOf("lifecycle-expiring", "warning"))
               = OneIf(detectArgs.lifecycleInfo.supportPhase = "maintenance-support")
        /\ Len(IssuesOf("lifecycle-expiring", "critical"))
               = OneIf(detectArgs.lifecycleInfo.supportPhase = "end-of-life")
        /\ Len(IssuesOfType("lifecycle-expiring"))
               = Len(IssuesOf("lifecycle-expiring", "warning"))
                 + Len(IssuesOf("lifecycle-expiring", "critical"))
        /\ \A i \in 1..Len(detected.issues) :
               (/\ detected.issues[i].type = "lifecycle-expiring"
                /\ detected.issues[i].severity = "critical")
                   => detected.issues[i].affectsClusterUpgrade
        /\ IsDefaultInfo(detectArgs.lifecycleInfo)
               => /\ IssuesOfType("lifecycle-expiring") = <<>>
                  /\ IssuesOfType("version-ceiling") = <<>>
        /\ detected.healthStatus = HealthOf(detected.issues)

\* a deprecated channel in the maintenance-support phase: two warnings and the
\* health status warning
C25_Witness ==
    /\ IsDetected
    /\ detectArgs.currentChannel.deprecated
    /\ detectArgs.lifecycleInfo.supportPhase = "maintenance-support"
    /\ Len(detected.issues) = 2
    /\ detected.issues[1].type = "stale-channel"
    /\ detected.issues[2].type = "lifecycle-expiring"
    /\ detected.healthStatus = "warning"

\* the default lifecycle info with updates available: no issue, healthy
C25_WitnessDefault ==
    /\ IsDetected
    /\ IsDefaultInfo(detectArgs.lifecycleInfo)
    /\ ~detectArgs.currentChannel.deprecated
    /\ Len(UpdatesRead) = 2
    /\ detected.issues = <<>>
    /\ detected.healthStatus = "healthy"

\* C26: the total duration of a path is the sum, over its steps, of the upper
\* bound of each step's estimate (15 for '15 minutes', 20 for '10-20 minutes',
\* 90 for '45-90 minutes'), rendered 'N minutes' below 60 and 'Hh Mm' with
\* H = sum div 60 and M = sum mod 60 otherwise; the total of the steps with one
\* more step appended is never less than the total without it.
UpperBound(estimate) ==
    CASE estimate = "15 minutes" -> 15
      [] estimate = "10-20 minutes" -> 20
      [] estimate = "45-90 minutes" -> 90

RECURSIVE SumOfUpperBounds(_)
SumOfUpperBounds(steps) ==
    IF steps = <<>> THEN 0
    ELSE UpperBound(Head(steps).estimatedDuration) + SumOfUpperBounds(Tail(steps))

\* the number of minutes a rendered duration stands for
MinutesOfText(text) ==
    With(DigitRunEnd(text, 1), LAMBDA a :
        IF text[a + 1] = "h"
        THEN 60 * ParseNat(text, 1, a)
                 + ParseNat(text, a + 3, DigitRunEnd(text, a + 3))
        ELSE ParseNat(text, 1, a))

Rendered(sum) ==
    IF sum < 60
    THEN ToDecimal(sum) \o <<" ", "m", "i", "n", "u", "t", "e", "s">>
    ELSE ToDecimal(sum \div 60) \o <<"h", " ">> \o ToDecimal(sum % 60) \o <<"m">>

WithoutLast(steps) == SubSeq(steps, 1, Len(steps) - 1)

C26_TotalDuration ==
    /\ totalDuration = Rendered(SumOfUpperBounds(durationSteps.steps))
    /\ durationSteps.steps # <<>> =>
           MinutesOfText(calculateTotalDuration(WithoutLast(durationSteps.steps)))
               <= MinutesOfText(totalDuration)

\* a verification, an operator and a cluster step: 125 minutes
C26_Witness ==
    /\ {durationSteps.steps[i].type : i \in 1..Len(durationSteps.steps)}
           = {"verification", "operator", "cluster"}
    /\ Len(durationSteps.steps) = 3
    /\ totalDuration = <<"2", "h", " ", "5", "m">>

\* a verification and two operator steps stay below the hour
C26_WitnessMinutes ==
    /\ Len(durationSteps.steps) = 3
    /\ totalDuration = <<"5", "5", " ", "m", "i", "n", "u", "t", "e", "s">>

PathRank(id) ==
    CASE id = "critical-issues-path" -> 1
      [] id = "conservative-path" -> 2
      [] id = "aggressive-path" -> 3
      [] id = "balanced-path" -> 4
      [] OTHER -> 0

InStrategyOrder(pathList) ==
    /\ Len(pathList) <= 4
    /\ \A i \in 1..Len(pathList) : PathRank(pathList[i].id) > 0
    /\ \A i \in 1..Len(pathList), j \in 1..Len(pathList) :
           i < j => PathRank(pathList[i].id) < PathRank(pathList[j].id)

SamePaths(first, second) ==
    /\ Len(first) = Len(second)
    /\ \A i \in 1..Len(first) :
           /\ first[i].id = second[i].id
           /\ first[i].steps = second[i].steps

\* the second call has returned or thrown
CalledAgain == secondPaths # NoCall

C27_WitnessNone ==
    /\ CalledAgain
    /\ firstPaths = Return(<<>>)
    /\ secondPaths = Return(<<>>)

\* C28: an entry that getOperatorLifecycleInfo returns from the cache was
\* fetched no more than cacheExpiry (one hour) before the call, whatever the
\* sequence of lookups and whatever the keys.
C28_CacheStaleness ==
    (lookup # NoCall /\ lookup.fromCache) =>
        lookup.at - lookup.fetched <= cacheExpiry

HasCeilingIssue(op) ==
    \E i \in 1..Len(op.issues) : op.issues[i].type = "version-ceiling"

LatestPending == \E request \in inFlight : request.seq = requested

\* the load whose outcome the page renders: the error comes before the operator
ShownLoad == IF pageError # Null THEN errorOf ELSE operatorOf

C30_LatestLoadShown ==
    /\ (requested > 0 /\ inFlight = {}) =>
           /\ pageLoading = FALSE
           /\ ShownLoad = requested
           /\ pageError = Null =>
                  pageOperator = OperatorData(routeParams)
    /\ LatestPending => pageLoading = TRUE

====
